---- MODULE Spec2Model ----
(***************************************************************************)
(* Function-level IR builder of the Latte compiler                          *)
(* (src/src/codegen/function.rs, src/src/model/ir.rs).                      *)
(*                                                                          *)
(* The builder lowers one type-checked function body into a CFG of basic    *)
(* blocks in SSA form.  The model keeps the builder's state (blocks,        *)
(* environment frames, the two counters, the global-string table) in the    *)
(* record cg, and runs process_block as a machine with an explicit stack    *)
(* of activations: one action per statement kind and one per point where    *)
(* a recursive process_block call returns into its caller.  Expression      *)
(* lowering (process_expression, process_expression_cond and the lvalue     *)
(* helpers) is a family of recursive operators on cg.                       *)
(*                                                                          *)
(* A Rust panic (unreachable!(), unwrap() on None, an index out of range)   *)
(* is recorded in cg.aborted; an aborted build produces no Function.        *)
(***************************************************************************)
EXTENDS Integers, Sequences, FiniteSets, TLC

VARIABLES fun_def, cg, ir_args, stack, ret, pc

vars == <<fun_def, cg, ir_args, stack, ret, pc>>

(***************************************************************************)
(* ir::Type.  Ptr(Ptr(..(base))) is kept as the pointer depth p over a base *)
(* kind k; n is the class name of Class(n); sig is <<>> except for          *)
(* Func(ret, args), where it is <<ret, arg1, ..., argn>>.                   *)
(***************************************************************************)
BaseType(k, n) == [p |-> 0, k |-> k, n |-> n, sig |-> <<>>]
TVoid == BaseType("Void", "")
TInt == BaseType("Int", "")
TBool == BaseType("Bool", "")
TChar == BaseType("Char", "")
TClass(name) == BaseType("Class", name)
TFunc(ret_type, args_types) ==
    [p |-> 0, k |-> "Func", n |-> "", sig |-> <<ret_type>> \o args_types]
Ptr(t) == [t EXCEPT !.p = t.p + 1]
IsPtr(t) == t.p > 0
Pointee(t) == [t EXCEPT !.p = t.p - 1]
TStr == Ptr(TChar)

(***************************************************************************)
(* ast::InnerType: base kind, class name, and the number of Array(..)       *)
(* wrappers around it.                                                      *)
(***************************************************************************)
AstType(k, n, arr) == [k |-> k, n |-> n, arr |-> arr]
AInt == AstType("Int", "", 0)
ABool == AstType("Bool", "", 0)
AString == AstType("String", "", 0)
AVoid == AstType("Void", "", 0)
ANull == AstType("Null", "", 0)
AClass(name) == AstType("Class", name, 0)
AArray(t) == [t EXCEPT !.arr = t.arr + 1]

from_class_name(class_name) == Ptr(TClass(class_name))

from_ast(ast_type) ==
    LET base == CASE ast_type.k = "Int" -> TInt
                  [] ast_type.k = "Bool" -> TBool
                  [] ast_type.k = "String" -> Ptr(TChar)
                  [] ast_type.k = "Class" -> from_class_name(ast_type.n)
                  [] ast_type.k = "Null" -> Ptr(TChar)
                  [] ast_type.k = "Void" -> TVoid
    IN [base EXCEPT !.p = base.p + ast_type.arr]

from_function_desc(fun_desc) ==
    Ptr(TFunc(from_ast(fun_desc.ret_type),
              [i \in 1..Len(fun_desc.args_types) |-> from_ast(fun_desc.args_types[i])]))

(***************************************************************************)
(* ir::Value.  i is the literal or the register number, s the global        *)
(* symbol, t the type as a sequence of length 0 (None) or 1.                *)
(***************************************************************************)
LitInt(n) == [k |-> "LitInt", i |-> n, s |-> "", t |-> <<>>]
LitBool(b) == [k |-> "LitBool", i |-> IF b THEN 1 ELSE 0, s |-> "", t |-> <<>>]
LitNullPtr(opt_type) == [k |-> "LitNullPtr", i |-> 0, s |-> "", t |-> opt_type]
Register(reg_num, type) == [k |-> "Register", i |-> reg_num, s |-> "", t |-> <<type>>]
GlobalRegister(name, type) == [k |-> "GlobalRegister", i |-> 0, s |-> name, t |-> <<type>>]
\* the value of a lookup that panicked; it exists in aborted builds only
NoValue == [k |-> "NoValue", i |-> 0, s |-> "", t |-> <<>>]

get_type(value) ==
    CASE value.k = "LitInt" -> TInt
      [] value.k = "LitBool" -> TBool
      [] value.k = "LitNullPtr" -> IF value.t = <<>> THEN Ptr(TChar) ELSE value.t[1]
      [] value.k \in {"Register", "GlobalRegister"} -> value.t[1]
      [] OTHER -> TVoid

(***************************************************************************)
(* Labels.  Option<Label>::None is NoLabel.                                 *)
(***************************************************************************)
\* std::u32::MAX.  TLC's integers are 32-bit signed, so the top of the label
\* range is 2^31 - 1 here; the code only ever uses distances from the top.
U32_MAX == 2147483647
ARGS_LABEL == U32_MAX
UNREACHABLE_LABEL == U32_MAX - 1
FIRST_PROXY_LABEL == U32_MAX - 42
NoLabel == -1

Abort(g, why) == IF g.aborted # "" THEN g ELSE [g EXCEPT !.aborted = why]
Ok(g) == g.aborted = ""

(***************************************************************************)
(* Env                                                                      *)
(***************************************************************************)
EnvFrame(parent) == [parent |-> parent, locals |-> <<>>]

Bind(locals, name, value) ==
    [n \in DOMAIN locals \cup {name} |-> IF n = name THEN value ELSE locals[n]]

allocate_new_frame(g, label, parent_label) ==
    IF ~Ok(g) THEN g
    ELSE IF label \in DOMAIN g.frames THEN Abort(g, "allocate_new_frame")
    ELSE [g EXCEPT !.frames =
            [l \in DOMAIN g.frames \cup {label} |->
                IF l = label THEN EnvFrame(parent_label) ELSE g.frames[l]]]

\* g.decl is ghost: the (frame, name) pairs that entered a frame through this
\* operation, that is, through a declaration, a parameter or a for-each
\* variable, and not through a copy made by a proxy operation
add_new_local_variable(g, frame, name, value) ==
    IF ~Ok(g) THEN g
    ELSE IF frame \notin DOMAIN g.frames THEN Abort(g, "add_new_local_variable: no frame")
    ELSE IF name \in DOMAIN g.frames[frame].locals
         THEN Abort(g, "add_new_local_variable: redeclared")
    ELSE [g EXCEPT !.frames[frame].locals = Bind(@, name, value),
                   !.decl = @ \cup {<<frame, name>>}]

RECURSIVE FrameHolding(_, _, _)
\* the nearest frame on the parent chain from frame whose own map holds name
FrameHolding(frames, frame, name) ==
    IF frame = NoLabel \/ frame \notin DOMAIN frames THEN NoLabel
    ELSE IF name \in DOMAIN frames[frame].locals THEN frame
    ELSE FrameHolding(frames, frames[frame].parent, name)

\* an update that rebinds the name in every frame that holds it
update_existing_local_variable_All(g, frame, name, value) ==
    IF ~Ok(g) THEN g
    ELSE IF FrameHolding(g.frames, frame, name) = NoLabel
      THEN Abort(g, "update_existing_local_variable")
    ELSE [g EXCEPT !.frames =
             [fr \in DOMAIN g.frames |->
                 IF name \in DOMAIN g.frames[fr].locals
                 THEN [g.frames[fr] EXCEPT !.locals[name] = value]
                 ELSE g.frames[fr]]]

\* an update that climbs past a proxy frame holding the name
update_existing_local_variable_PastProxy(g, frame, name, value) ==
    IF ~Ok(g) THEN g
    ELSE LET f == FrameHolding(g.frames, frame, name)
         IN IF f = NoLabel THEN Abort(g, "update_existing_local_variable")
            ELSE IF f > Len(g.blocks) /\ f <= FIRST_PROXY_LABEL
                    /\ FrameHolding(g.frames, g.frames[f].parent, name) # NoLabel
              THEN [g EXCEPT !.frames[FrameHolding(g.frames, g.frames[f].parent, name)]
                                 .locals[name] = value]
            ELSE [g EXCEPT !.frames[f].locals[name] = value]

update_existing_local_variable(g, frame, name, value) ==
    IF ~Ok(g) THEN g
    ELSE LET f == FrameHolding(g.frames, frame, name)
         IN IF f = NoLabel THEN Abort(g, "update_existing_local_variable")
            ELSE [g EXCEPT !.frames[f].locals[name] = value]

get_variable(g, frame, name) ==
    LET f == FrameHolding(g.frames, frame, name)
    IN IF f = NoLabel THEN NoValue ELSE g.frames[f].locals[name]

RECURSIVE get_all_visible_local_variables(_, _)
get_all_visible_local_variables(g, frame) ==
    IF frame = NoLabel \/ frame \notin DOMAIN g.frames THEN {}
    ELSE DOMAIN g.frames[frame].locals
         \cup get_all_visible_local_variables(g, g.frames[frame].parent)

\* a proxy frame hung under the frame of the arguments
insert_empty_proxy_frame_Rooted(g, frame_label) ==
    IF ~Ok(g) THEN g
    ELSE IF frame_label \notin DOMAIN g.frames
            \/ g.frames[frame_label].parent = NoLabel
         THEN Abort(g, "insert_empty_proxy_frame")
    ELSE allocate_new_frame([g EXCEPT !.next_proxy_frame = @ - 1,
                                      !.frames[frame_label].parent = g.next_proxy_frame],
                            g.next_proxy_frame, ARGS_LABEL)

\* the counter of proxy labels is left where it was
insert_empty_proxy_frame_Reused(g, frame_label) ==
    IF ~Ok(g) THEN g
    ELSE IF frame_label \notin DOMAIN g.frames
            \/ g.frames[frame_label].parent = NoLabel
         THEN Abort(g, "insert_empty_proxy_frame")
    ELSE allocate_new_frame([g EXCEPT !.frames[frame_label].parent = g.next_proxy_frame],
                            g.next_proxy_frame, g.frames[frame_label].parent)

\* returns the builder; the label handed out is the old g.next_proxy_frame
insert_empty_proxy_frame(g, frame_label) ==
    IF ~Ok(g) THEN g
    ELSE IF frame_label \notin DOMAIN g.frames
            \/ g.frames[frame_label].parent = NoLabel
         THEN Abort(g, "insert_empty_proxy_frame")
    ELSE LET proxy_frame_label == g.next_proxy_frame
             parent == g.frames[frame_label].parent
             g1 == [g EXCEPT !.next_proxy_frame = @ - 1,
                             !.frames[frame_label].parent = proxy_frame_label]
         IN allocate_new_frame(g1, proxy_frame_label, parent)

\* a proxy frame that copies no binding
create_proxy_env_Empty(g, frame_label) == insert_empty_proxy_frame(g, frame_label)

create_proxy_env(g, frame_label) ==
    IF ~Ok(g) THEN g
    ELSE LET names == get_all_visible_local_variables(g, frame_label)
             proxy_frame_label == g.next_proxy_frame
             g1 == insert_empty_proxy_frame(g, frame_label)
         IN IF ~Ok(g1) THEN g1
            ELSE [g1 EXCEPT !.frames[proxy_frame_label].locals =
                    [n \in names |-> get_variable(g1, frame_label, n)]]

apply_proxy_env(g, proxy, target) ==
    IF ~Ok(g) THEN g
    ELSE LET names == get_all_visible_local_variables(g, proxy)
             old == g.frames[target].locals
         IN [g EXCEPT !.frames[target].locals =
                [n \in DOMAIN old \cup names |->
                    IF n \in names THEN get_variable(g, proxy, n) ELSE old[n]]]

(***************************************************************************)
(* FunctionCodeGen: blocks, counters                                        *)
(***************************************************************************)
IsBlock(g, label) == label \in 0..(Len(g.blocks) - 1)

get_block(g, label) == g.blocks[label + 1]

\* get_block(label).body.push(op); indexing past the blocks vector panics.
\* g.log is the ghost record of the emission order, g.tag the ghost stack of
\* the call arguments being lowered.
Push(g, label, op) ==
    IF ~Ok(g) THEN g
    ELSE IF ~IsBlock(g, label) THEN Abort(g, "get_block: index out of range")
    ELSE [g EXCEPT !.blocks[label + 1].body = Append(@, op),
                   !.log = Append(@, [l |-> label, op |-> op, tag |-> g.tag])]

InsertPhi(g, label, phi_entry) ==
    IF ~Ok(g) THEN g
    ELSE IF ~IsBlock(g, label) THEN Abort(g, "get_block: index out of range")
    ELSE [g EXCEPT !.blocks[label + 1].phi_set = @ \cup {phi_entry}]

PhiEntry(reg_num, type, incoming) == [r |-> reg_num, t |-> type, inc |-> incoming]

\* returns the builder; the label handed out is the old Len(g.blocks)
allocate_new_block(g, parent_env_label) ==
    IF ~Ok(g) THEN g
    ELSE LET label == Len(g.blocks)
             g1 == [g EXCEPT !.blocks = Append(@,
                        [label |-> label, phi_set |-> {},
                         predecessors |-> <<>>, body |-> <<>>])]
         IN allocate_new_frame(g1, label, parent_env_label)

AddPred(g, dst, src) ==
    IF ~Ok(g) THEN g
    ELSE IF ~IsBlock(g, dst) THEN Abort(g, "get_block: index out of range")
    ELSE [g EXCEPT !.blocks[dst + 1].predecessors = Append(@, src)]

Branch1(dst) == [k |-> "Branch1", dst |-> dst]
Branch2(cond, br1, br2) == [k |-> "Branch2", cond |-> cond, br1 |-> br1, br2 |-> br2]

\* Branch1 pushed without the entry in the predecessors of its target
add_branch1_op_NoPred(g, src, dst) == Push(g, src, Branch1(dst))

add_branch1_op(g, src, dst) ==
    AddPred(Push(g, src, Branch1(dst)), dst, src)

\* Branch2 that jumps to its first arm only
add_branch2_op_OneArm(g, src, cond, br1, br2) ==
    AddPred(AddPred(Push(g, src, Branch1(br1)), br1, src), br2, src)

add_branch2_op(g, src, cond, br1, br2) ==
    AddPred(AddPred(Push(g, src, Branch2(cond, br1, br2)), br1, src), br2, src)

\* a builder that hands the same number out again
get_new_reg_num_Reused(g) == g

\* returns the builder; the number handed out is the old g.next_reg_num
get_new_reg_num(g) == [g EXCEPT !.next_reg_num = @ + 1]

(***************************************************************************)
(* ir::Operation                                                            *)
(***************************************************************************)
Return(opt_value) == [k |-> "Return", v |-> opt_value]
FunctionCall(opt_reg, ret_type, callee, args) ==
    [k |-> "FunctionCall", res |-> opt_reg, t |-> ret_type, f |-> callee, args |-> args]
Arithmetic(reg, op, lhs, rhs) ==
    [k |-> "Arithmetic", r |-> reg, op |-> op, lhs |-> lhs, rhs |-> rhs]
Compare(reg, op, lhs, rhs) ==
    [k |-> "Compare", r |-> reg, op |-> op, lhs |-> lhs, rhs |-> rhs]
GetElementPtr(reg, type, indices) ==
    [k |-> "GetElementPtr", r |-> reg, t |-> type, idx |-> indices]
CastGlobalString(reg, len, value) ==
    [k |-> "CastGlobalString", r |-> reg, len |-> len, v |-> value]
CastPtr(dst, dst_type, src_value) ==
    [k |-> "CastPtr", r |-> dst, t |-> dst_type, v |-> src_value]
CastPtrToInt(dst, src_value) == [k |-> "CastPtrToInt", r |-> dst, v |-> src_value]
Load(reg, addr) == [k |-> "Load", r |-> reg, addr |-> addr]
Store(value, addr) == [k |-> "Store", v |-> value, addr |-> addr]

(***************************************************************************)
(* ast::InnerExpr and ast::InnerStmt.  A string literal is the sequence of  *)
(* its characters.                                                          *)
(***************************************************************************)
ELitVar(name) == [k |-> "LitVar", name |-> name]
ELitInt(v) == [k |-> "LitInt", v |-> v]
ELitBool(v) == [k |-> "LitBool", v |-> v]
ELitStr(chars) == [k |-> "LitStr", v |-> chars]
ELitNull == [k |-> "LitNull"]
ECastType(expr, dst_type) == [k |-> "CastType", e |-> expr, t |-> dst_type]
EFunCall(function_name, args) == [k |-> "FunCall", name |-> function_name, args |-> args]
EBinaryOp(lhs, op, rhs) == [k |-> "BinaryOp", lhs |-> lhs, op |-> op, rhs |-> rhs]
EUnaryOp(op, expr) == [k |-> "UnaryOp", op |-> op, e |-> expr]
ENewArray(elem_type, elem_cnt) == [k |-> "NewArray", t |-> elem_type, cnt |-> elem_cnt]
ENewObject(class_type) == [k |-> "NewObject", t |-> class_type]
EArrayElem(array, index) == [k |-> "ArrayElem", array |-> array, index |-> index]
\* is_obj_an_array: Some(true) for a.length, Some(false) for o.f
EObjField(obj, is_obj_an_array, field) ==
    [k |-> "ObjField", obj |-> obj, is_arr |-> is_obj_an_array, field |-> field]
EObjMethodCall(obj, method_name, args) ==
    [k |-> "ObjMethodCall", obj |-> obj, name |-> method_name, args |-> args]

SEmpty == [k |-> "Empty"]
SBlock(stmts) == [k |-> "Block", stmts |-> stmts]
\* var_items: sequence of <<name, init>>, init a sequence of 0 or 1 expression
SDecl(var_type, var_items) == [k |-> "Decl", t |-> var_type, items |-> var_items]
SAssign(lhs, rhs) == [k |-> "Assign", lhs |-> lhs, rhs |-> rhs]
SIncr(lhs) == [k |-> "Incr", lhs |-> lhs]
SDecr(lhs) == [k |-> "Decr", lhs |-> lhs]
SRet(opt_expr) == [k |-> "Ret", e |-> opt_expr]
\* true_branch: the statements of a Block; false_branch: 0 or 1 such Block
SCond(cond, true_branch, false_branch) ==
    [k |-> "Cond", cond |-> cond, t |-> true_branch, f |-> false_branch]
SWhile(cond, block) == [k |-> "While", cond |-> cond, body |-> block]
SForEach(iter_type, iter_name, array, body) ==
    [k |-> "ForEach", t |-> iter_type, name |-> iter_name, array |-> array, body |-> body]
SExpr(expr) == [k |-> "Expr", e |-> expr]

(***************************************************************************)
(* GlobalContext: the builtins and the functions and classes of the         *)
(* program under compilation.                                               *)
(***************************************************************************)
FunDesc(ret_type, args_types) == [ret_type |-> ret_type, args_types |-> args_types]

get_builtin_functions ==
    [printInt |-> FunDesc(AVoid, <<AInt>>),
     printString |-> FunDesc(AVoid, <<AString>>),
     error |-> FunDesc(AVoid, <<>>),
     readInt |-> FunDesc(AInt, <<>>),
     readString |-> FunDesc(AString, <<>>)]

\* the FunDefs scan_global_defenitions has registered
UserFunctions ==
    [isOk |-> FunDesc(ABool, <<>>),
     p |-> FunDesc(ABool, <<AInt>>),
     str |-> FunDesc(AString, <<ABool>>),
     mk |-> FunDesc(AClass("A"), <<ABool>>),
     f1 |-> FunDesc(AVoid, <<ABool>>),
     f2 |-> FunDesc(AInt, <<ABool, ABool>>),
     f3 |-> FunDesc(AInt, <<ABool, ABool, ABool>>),
     f4 |-> FunDesc(AInt, <<ABool, ABool, ABool, ABool>>)]

get_function_description(name) ==
    IF name \in DOMAIN get_builtin_functions THEN get_builtin_functions[name]
    ELSE UserFunctions[name]

get_function_type(name) == from_function_desc(get_function_description(name))

(***************************************************************************)
(* ClassRegistry (codegen::class): slot 0 of an object is its vtable        *)
(* pointer, fields are numbered from 1, an inherited method keeps the slot  *)
(* and the `this` type of the class that defines it.                        *)
(*   class A { A next; int v; int get(); void put(boolean b); }             *)
(*   class B extends A { int w; int size(); }                               *)
(***************************************************************************)
MethodType(class_name, ret_type, args_types) ==
    Ptr(TFunc(from_ast(ret_type),
              <<from_class_name(class_name)>>
                \o [i \in 1..Len(args_types) |-> from_ast(args_types[i])]))

get_field_number_and_type(class_name, field) ==
    CASE field = "next" -> <<1, from_class_name("A")>>
      [] field = "v" -> <<2, TInt>>
      [] field = "w" -> <<3, TInt>>

get_method_number_and_type(class_name, method) ==
    CASE method = "get" -> <<0, MethodType("A", AInt, <<>>)>>
      [] method = "put" -> <<1, MethodType("A", AVoid, <<ABool>>)>>
      [] method = "size" -> <<2, MethodType("B", AInt, <<>>)>>

get_size_of_primitive(type) ==
    IF IsPtr(type) THEN 8 ELSE IF type.k = "Int" THEN 4 ELSE 1

VtableTypeName == [A |-> "A.vtable.type", B |-> "B.vtable.type"]
VtableDataName == [A |-> "cls.A.vtable.data", B |-> "cls.B.vtable.data"]
get_class_vtable_type(name) == Ptr(TClass(VtableTypeName[name]))
format_class_vtable_data(name) == VtableDataName[name]

StrNames == <<".str.0", ".str.1", ".str.2", ".str.3", ".str.4", ".str.5">>
format_global_string(no) == StrNames[no + 1]

\* every new content is given the number 0
get_global_string_Zero(g, string) ==
    LET str_type == Ptr(TChar)
    IN IF string \in DOMAIN g.global_strings
       THEN <<g, GlobalRegister(format_global_string(g.global_strings[string]), str_type)>>
       ELSE <<[g EXCEPT !.global_strings =
                 [c \in DOMAIN @ \cup {string} |-> IF c = string THEN 0 ELSE @[c]]],
              GlobalRegister(format_global_string(0), str_type)>>

\* returns <<builder, value>>
get_global_string(g, string) ==
    LET str_type == Ptr(TChar)
    IN IF string \in DOMAIN g.global_strings
       THEN <<g, GlobalRegister(format_global_string(g.global_strings[string]), str_type)>>
       ELSE LET reg == Cardinality(DOMAIN g.global_strings)
            IN <<[g EXCEPT !.global_strings =
                    [c \in DOMAIN @ \cup {string} |-> IF c = string THEN reg ELSE @[c]]],
                 GlobalRegister(format_global_string(reg), str_type)>>

(***************************************************************************)
(* Expression lowering.  Every operator returns R(builder, label, value).   *)
(***************************************************************************)
R(g, label, value) == [cg |-> g, label |-> label, value |-> value]

RECURSIVE process_expression(_, _, _)
RECURSIVE process_expression_cond(_, _, _, _, _)
RECURSIVE process_lvalue_ref_expression(_, _, _)
RECURSIVE ProcessArgs(_, _, _, _, _, _)

\* one turn of the loop is over: r is the lowered argument i (lines 645-649)
NextArg(r, tag, args, i, vals, call) ==
    ProcessArgs([r.cg EXCEPT !.tag = tag], args, i + 1, r.label,
                Append(vals, r.value), call)

\* the `for a in args` loop of process_fun_call, from argument i on; vals are
\* the values gathered so far.  While argument i is lowered the ghost tag
\* holds <<call, i>>.
ProcessArgs(g, args, i, cur_label, vals, call) ==
    IF i > Len(args) \/ ~Ok(g) THEN [cg |-> g, label |-> cur_label, values |-> vals]
    ELSE NextArg(process_expression([g EXCEPT !.tag = Append(@, <<call, i>>)],
                                    args[i], cur_label),
                 g.tag, args, i, vals, call)

\* the FunctionCall pushed to the entry block
EmitCall_AtEntry(g, label, fun_ret_type, function_value, args_values, call) ==
    LET reg_num == g.next_reg_num
        g1 == get_new_reg_num(g)
        op_reg_num == IF fun_ret_type = TVoid THEN <<>> ELSE <<reg_num>>
        g2 == Push([g1 EXCEPT !.tag = Append(@, <<call, 0>>)], 0,
                   FunctionCall(op_reg_num, fun_ret_type, function_value, args_values))
    IN R([g2 EXCEPT !.tag = g.tag], label, Register(reg_num, fun_ret_type))

\* the tail of process_fun_call: the FunctionCall is pushed to label, the
\* label current after the last argument
EmitCall(g, label, fun_ret_type, function_value, args_values, call) ==
    LET reg_num == g.next_reg_num
        g1 == get_new_reg_num(g)
        op_reg_num == IF fun_ret_type = TVoid THEN <<>> ELSE <<reg_num>>
        g2 == Push([g1 EXCEPT !.tag = Append(@, <<call, 0>>)], label,
                   FunctionCall(op_reg_num, fun_ret_type, function_value, args_values))
    IN R([g2 EXCEPT !.tag = g.tag], label, Register(reg_num, fun_ret_type))

\* the arguments are lowered (a): their values and the label current after
\* the last of them go to the FunctionCall
CallAfterArgs(a, function_value, call) ==
    IF ~Ok(a.cg) THEN R(a.cg, a.label, NoValue)
    ELSE EmitCall([a.cg EXCEPT !.argend[call] = a.label],
                  a.label, function_value.t[1].sig[1], function_value, a.values, call)

\* g.argend is ghost: per call, in the order the calls were entered, the label
\* that was current when its last argument had been lowered
process_fun_call(g, function_value, this_ptr, args, cur_label) ==
    IF ~Ok(g) THEN R(g, cur_label, NoValue)
    ELSE IF ~(function_value.k \in {"Register", "GlobalRegister"}
              /\ function_value.t[1].p = 1 /\ function_value.t[1].k = "Func")
         THEN R(Abort(g, "process_fun_call: not a function"), cur_label, NoValue)
    ELSE CallAfterArgs(ProcessArgs([g EXCEPT !.argend = Append(@, NoLabel)],
                                   args, 1, cur_label, this_ptr, Len(g.argend) + 1),
                       function_value, Len(g.argend) + 1)

\* the binary operators by group
IsLogic(op) == op \in {"And", "Or"}
IsArith(op) == op \in {"Add", "Sub", "Mul", "Div", "Mod"}
IsCmp(op) == op \in {"LT", "LE", "GT", "GE", "EQ", "NE"}

\* the join whose phi takes true from the false end and false from the true end
LogicJoin_Flipped(g, cur_label, true_label, false_label) ==
    LET cont_label == Len(g.blocks)
        g1 == add_branch1_op(add_branch1_op(allocate_new_block(g, cur_label),
                                            true_label, cont_label),
                             false_label, cont_label)
        new_reg == g1.next_reg_num
    IN R(InsertPhi(get_new_reg_num(g1), cont_label,
                   PhiEntry(new_reg, TBool, <<<<LitBool(TRUE), false_label>>,
                                              <<LitBool(FALSE), true_label>>>>)),
         cont_label, Register(new_reg, TBool))

\* lines 741-750: both ends of the condition's code branch to a new block,
\* and a phi there picks the truth value
LogicJoin(g, cur_label, true_label, false_label) ==
    LET cont_label == Len(g.blocks)
        g1 == add_branch1_op(add_branch1_op(allocate_new_block(g, cur_label),
                                            true_label, cont_label),
                             false_label, cont_label)
        new_reg == g1.next_reg_num
    IN R(InsertPhi(get_new_reg_num(g1), cont_label,
                   PhiEntry(new_reg, TBool, <<<<LitBool(TRUE), true_label>>,
                                              <<LitBool(FALSE), false_label>>>>)),
         cont_label, Register(new_reg, TBool))

\* lines 734-752: a value-context && / ||
LowerLogic(g, expr, cur_label) ==
    LogicJoin(process_expression_cond(
                  allocate_new_block(allocate_new_block(g, cur_label), cur_label),
                  expr, cur_label, Len(g.blocks), Len(g.blocks) + 1),
              cur_label, Len(g.blocks), Len(g.blocks) + 1)

\* e after l: the pair of the lowered l and of e lowered from where l ended
Then(l, e) == [l |-> l, r |-> process_expression(l.cg, e, l.label)]

\* lines 757-792, on the lowered operands
ArithOp(o, op) ==
    LET new_label == o.r.label
        lhs_type == get_type(o.l.value)
        new_reg == o.r.cg.next_reg_num
        g1 == get_new_reg_num(o.r.cg)
    IN IF ~Ok(o.r.cg) THEN R(o.r.cg, new_label, NoValue)
       ELSE IF lhs_type = TInt
         THEN R(Push(g1, new_label, Arithmetic(new_reg, op, o.l.value, o.r.value)),
                new_label, Register(new_reg, TInt))
       ELSE IF IsPtr(lhs_type)
         THEN LET str_type == lhs_type
                  fun_type == Ptr(TFunc(str_type, <<str_type, str_type>>))
              IN R(Push(g1, new_label,
                        FunctionCall(<<new_reg>>, str_type,
                                     GlobalRegister("_bltn_string_concat", fun_type),
                                     <<o.l.value, o.r.value>>)),
                   new_label, Register(new_reg, str_type))
       ELSE R(Abort(o.r.cg, "arithmetic: operand type"), new_label, NoValue)

\* lines 753-793: + - * / % on integers, + on strings
LowerArith(g, expr, cur_label) ==
    ArithOp(Then(process_expression(g, expr.lhs, cur_label), expr.rhs), expr.op)

\* lines 802-855, on the lowered operands; cur_label is the label the
\* comparison was entered with
CompareOp(o, op, cur_label) ==
    LET new_label == o.r.label
        lhs_type == get_type(o.l.value)
        new_reg == o.r.cg.next_reg_num
        g1 == get_new_reg_num(o.r.cg)
    IN IF ~Ok(o.r.cg) THEN R(o.r.cg, new_label, NoValue)
       ELSE IF lhs_type \in {TInt, TBool}
         THEN R(Push(g1, new_label, Compare(new_reg, op, o.l.value, o.r.value)),
                new_label, Register(new_reg, TBool))
       ELSE IF IsPtr(lhs_type) /\ op \notin {"EQ", "NE"}
         THEN R(Abort(o.r.cg, "comparison: pointer ordering"), new_label, NoValue)
       ELSE IF lhs_type = Ptr(TChar)
         THEN LET fun_name == IF op = "EQ" THEN "_bltn_string_eq" ELSE "_bltn_string_ne"
                  str_type == Ptr(TChar)
                  fun_type == Ptr(TFunc(TBool, <<str_type, str_type>>))
              IN R(Push(g1, cur_label,
                        FunctionCall(<<new_reg>>, TBool,
                                     GlobalRegister(fun_name, fun_type),
                                     <<o.l.value, o.r.value>>)),
                   cur_label, Register(new_reg, TBool))
       ELSE IF IsPtr(lhs_type)
         THEN R(Push(g1, cur_label, Compare(new_reg, op, o.l.value, o.r.value)),
                cur_label, Register(new_reg, TBool))
       ELSE R(Abort(o.r.cg, "comparison: operand type"), new_label, NoValue)

\* lines 794-856: comparisons
LowerCompare(g, expr, cur_label) ==
    CompareOp(Then(process_expression(g, expr.lhs, cur_label), expr.rhs), expr.op,
              cur_label)

\* lines 684-707
LowerLitStr(g, expr, cur_label) ==
    IF expr.v = <<>> THEN R(g, cur_label, LitNullPtr(<<Ptr(TChar)>>))
    ELSE LET reg_num == g.next_reg_num
             gs == get_global_string(get_new_reg_num(g), expr.v)
             g1 == Push(gs[1], cur_label,
                        CastGlobalString(reg_num, Len(expr.v) + 1, gs[2]))
         IN R(g1, cur_label, Register(reg_num, Ptr(TChar)))

\* lines 711-723, on the lowered operand
CastOp(e, dst_type) ==
    IF ~Ok(e.cg) THEN R(e.cg, e.label, NoValue)
    ELSE IF e.value.k = "LitNullPtr" THEN R(e.cg, e.label, LitNullPtr(<<dst_type>>))
    ELSE R(Push(get_new_reg_num(e.cg), e.label,
                CastPtr(e.cg.next_reg_num, dst_type, e.value)),
           e.label, Register(e.cg.next_reg_num, dst_type))

\* lines 709-724
LowerCastType(g, expr, cur_label) ==
    CastOp(process_expression(g, expr.e, cur_label), from_ast(expr.t))

\* lines 860-884, on the lowered operand
UnaryOp(e, op) ==
    LET new_reg == e.cg.next_reg_num
        g1 == get_new_reg_num(e.cg)
    IN IF ~Ok(e.cg) THEN R(e.cg, e.label, NoValue)
       ELSE IF op = "IntNeg"
         THEN R(Push(g1, e.label, Arithmetic(new_reg, "Sub", LitInt(0), e.value)),
                e.label, Register(new_reg, TInt))
       ELSE R(Push(g1, e.label, Arithmetic(new_reg, "Sub", LitBool(TRUE), e.value)),
              e.label, Register(new_reg, TBool))

\* lines 858-885
LowerUnaryOp(g, expr, cur_label) ==
    UnaryOp(process_expression(g, expr.e, cur_label), expr.op)

\* lines 890-920, on the lowered element count
AllocArray(c, elem_type_ir) ==
    LET elem_size == get_size_of_primitive(elem_type_ir)
        new_label == c.label
        reg_num == c.cg.next_reg_num
        casted_reg_num == reg_num + 1
        array_type_ir == Ptr(elem_type_ir)
        void_ptr_type == Ptr(TChar)
        malloc_type == Ptr(TFunc(void_ptr_type, <<TInt, TInt>>))
        g1 == Push(get_new_reg_num(get_new_reg_num(c.cg)), new_label,
                   FunctionCall(<<reg_num>>, void_ptr_type,
                                GlobalRegister("_bltn_alloc_array", malloc_type),
                                <<c.value, LitInt(elem_size)>>))
        g2 == Push(g1, new_label,
                   CastPtr(casted_reg_num, array_type_ir, Register(reg_num, void_ptr_type)))
    IN IF ~Ok(c.cg) THEN R(c.cg, new_label, NoValue)
       ELSE R(g2, new_label, Register(casted_reg_num, array_type_ir))

\* lines 886-921
LowerNewArray(g, expr, cur_label) ==
    AllocArray(process_expression(g, expr.cnt, cur_label), from_ast(expr.t))

\* lines 922-1006
LowerNewObject(g, expr, cur_label) ==
    IF expr.t.k # "Class" \/ expr.t.arr # 0
    THEN R(Abort(g, "new: not a class"), cur_label, NoValue)
    ELSE
    LET class_name == expr.t.n
        class_type == TClass(class_name)
        class_type_ptr == Ptr(class_type)
        size_ptr_reg == g.next_reg_num
        size_int_reg == size_ptr_reg + 1
        g1 == get_new_reg_num(get_new_reg_num(g))
        g2 == Push(g1, cur_label,
                   GetElementPtr(size_ptr_reg, class_type,
                                 <<LitNullPtr(<<class_type_ptr>>), LitInt(1)>>))
        g3 == Push(g2, cur_label,
                   CastPtrToInt(size_int_reg, Register(size_ptr_reg, class_type_ptr)))
        allocd_void_ptr_reg == g3.next_reg_num
        allocd_cl_ptr_reg == allocd_void_ptr_reg + 1
        g4 == get_new_reg_num(get_new_reg_num(g3))
        allocd_cl_ptr_val == Register(allocd_cl_ptr_reg, class_type_ptr)
        void_ptr_type == Ptr(TChar)
        malloc_type == Ptr(TFunc(void_ptr_type, <<TInt>>))
        g5 == Push(g4, cur_label,
                   FunctionCall(<<allocd_void_ptr_reg>>, void_ptr_type,
                                GlobalRegister("_bltn_malloc", malloc_type),
                                <<Register(size_int_reg, TInt)>>))
        g6 == Push(g5, cur_label,
                   CastPtr(allocd_cl_ptr_reg, class_type_ptr,
                           Register(allocd_void_ptr_reg, void_ptr_type)))
        vtable_ptr_reg == g6.next_reg_num
        g7 == get_new_reg_num(g6)
        vtable_type == get_class_vtable_type(class_name)
        vtable_val == GlobalRegister(format_class_vtable_data(class_name), vtable_type)
        g8 == Push(g7, cur_label,
                   GetElementPtr(vtable_ptr_reg, class_type,
                                 <<allocd_cl_ptr_val, LitInt(0), LitInt(0)>>))
        g9 == Push(g8, cur_label,
                   Store(vtable_val, Register(vtable_ptr_reg, Ptr(vtable_type))))
    IN R(g9, cur_label, allocd_cl_ptr_val)

\* returns <<builder, value>>
generate_calculation_of_ref_to_array_length(g, cur_label, array_ptr) ==
    LET array_type == get_type(array_ptr)
        int_ptr_type == Ptr(TInt)
    IN IF ~Ok(g) THEN <<g, NoValue>>
       ELSE IF ~IsPtr(array_type) THEN <<Abort(g, "array length: not a pointer"), NoValue>>
       ELSE IF Pointee(array_type) = TInt /\ array_ptr.k # "Register"
         THEN <<Abort(g, "array length: not a register"), NoValue>>
       ELSE
       LET reuse == Pointee(array_type) = TInt
           casted_reg == IF reuse THEN array_ptr.i ELSE g.next_reg_num
           g1 == IF reuse THEN g
                 ELSE Push(get_new_reg_num(g), cur_label,
                           CastPtr(casted_reg, int_ptr_type, array_ptr))
           result_reg == g1.next_reg_num
           g2 == Push(get_new_reg_num(g1), cur_label,
                      GetElementPtr(result_reg, TInt,
                                    <<Register(casted_reg, int_ptr_type), LitInt(-1)>>))
       IN <<g2, Register(result_reg, int_ptr_type)>>

\* lines 1128-1141, on the lowered array and index
ElemRef(o) ==
    LET new_label == o.r.label
        new_reg == o.r.cg.next_reg_num
        array_type == get_type(o.l.value)
    IN IF ~Ok(o.r.cg) THEN R(o.r.cg, new_label, NoValue)
       ELSE IF ~IsPtr(array_type)
         THEN R(Abort(o.r.cg, "array element: not a pointer"), new_label, NoValue)
       ELSE R(Push(get_new_reg_num(o.r.cg), new_label,
                   GetElementPtr(new_reg, Pointee(array_type), <<o.l.value, o.r.value>>)),
              new_label, Register(new_reg, array_type))

\* <<builder, value>> as R at label
AtLabel(c, label) == R(c[1], label, c[2])

\* lines 1149-1186, on the lowered object
FieldRef(o, field, is_arr) ==
    LET new_label == o.label
    IN IF ~Ok(o.cg) THEN R(o.cg, new_label, NoValue)
       ELSE IF is_arr = <<TRUE>> THEN
         AtLabel(generate_calculation_of_ref_to_array_length(o.cg, new_label, o.value),
                 new_label)
       ELSE IF is_arr = <<FALSE>> THEN
         IF ~(o.value.k = "Register" /\ o.value.t[1].p = 1 /\ o.value.t[1].k = "Class")
         THEN R(Abort(o.cg, "field: not an object register"), new_label, NoValue)
         ELSE
         LET field_ptr_reg == o.cg.next_reg_num
             class_type == Pointee(o.value.t[1])
             ft == get_field_number_and_type(class_type.n, field)
         IN R(Push(get_new_reg_num(o.cg), new_label,
                   GetElementPtr(field_ptr_reg, class_type,
                                 <<o.value, LitInt(0), LitInt(ft[1])>>)),
              new_label, Register(field_ptr_reg, Ptr(ft[2])))
       ELSE R(Abort(o.cg, "field: is_obj_an_array is None"), new_label, NoValue)

process_lvalue_ref_expression(g, expr, cur_label) ==
    IF ~Ok(g) THEN R(g, cur_label, NoValue)
    ELSE IF expr.k = "ArrayElem"
      THEN ElemRef(Then(process_expression(g, expr.array, cur_label), expr.index))
    ELSE IF expr.k = "ObjField"
      THEN FieldRef(process_expression(g, expr.obj, cur_label), expr.field, expr.is_arr)
    ELSE R(Abort(g, "lvalue: local variable"), cur_label, NoValue)

\* lines 1010-1018, on the computed address
LoadFrom(e) ==
    IF ~Ok(e.cg) THEN R(e.cg, e.label, NoValue)
    ELSE IF ~(e.value.k = "Register" /\ IsPtr(e.value.t[1]))
      THEN R(Abort(e.cg, "load: not a pointer register"), e.label, NoValue)
    ELSE R(Push(get_new_reg_num(e.cg), e.label, Load(e.cg.next_reg_num, e.value)),
           e.label, Register(e.cg.next_reg_num, Pointee(e.value.t[1])))

\* lines 1007-1019
LowerLoad(g, expr, cur_label) ==
    LoadFrom(process_lvalue_ref_expression(g, expr, cur_label))

\* lines 1022-1116, on the lowered receiver; cur_label is the label the call
\* expression was entered with
MethodCallOn(o, name, args, cur_label) ==
    LET new_label == o.label
        this_value == o.value
    IN IF ~Ok(o.cg) THEN R(o.cg, new_label, NoValue)
       ELSE IF ~(this_value.k = "Register" /\ this_value.t[1].p = 1
                 /\ this_value.t[1].k = "Class")
         THEN R(Abort(o.cg, "method call: receiver"), new_label, NoValue)
       ELSE
       LET this_type == this_value.t[1]
           elem_this_type == Pointee(this_type)
           class_name == elem_this_type.n
           vtable_type == get_class_vtable_type(class_name)
           vtable_reg == o.cg.next_reg_num
           vtable_val == Register(vtable_reg, vtable_type)
           vtable_ptr_reg == vtable_reg + 1
           vtable_ptr_val == Register(vtable_ptr_reg, Ptr(vtable_type))
           method_ptr_reg == vtable_reg + 2
           method_reg == vtable_reg + 3
           casted_reg == vtable_reg + 4
           vtable_elem_type == Pointee(vtable_type)
           mt == get_method_number_and_type(class_name, name)
           method_type == mt[2]
           method_ptr_val == Register(method_ptr_reg, Ptr(method_type))
           method_val == Register(method_reg, method_type)
           formal_this == method_type.sig[2]
           cast == formal_this # this_type
           casted_this_value == IF cast THEN Register(casted_reg, formal_this)
                                ELSE this_value
           g1 == Push(get_new_reg_num(get_new_reg_num(o.cg)), new_label,
                      GetElementPtr(vtable_ptr_reg, elem_this_type,
                                    <<this_value, LitInt(0), LitInt(0)>>))
           g2 == Push(g1, new_label, Load(vtable_reg, vtable_ptr_val))
           g3 == Push(get_new_reg_num(get_new_reg_num(g2)), new_label,
                      GetElementPtr(method_ptr_reg, vtable_elem_type,
                                    <<vtable_val, LitInt(0), LitInt(mt[1])>>))
           g4 == Push(g3, new_label, Load(method_reg, method_ptr_val))
           g5 == IF cast
                 THEN Push(get_new_reg_num(g4), new_label,
                           CastPtr(casted_reg, formal_this, this_value))
                 ELSE g4
       IN process_fun_call(g5, method_val, <<casted_this_value>>, args, cur_label)

\* lines 1020-1117
LowerObjMethodCall(g, expr, cur_label) ==
    MethodCallOn(process_expression(g, expr.obj, cur_label), expr.name, expr.args,
                 cur_label)

\* line 625-626: the value of a leaf condition decides the branch
\* the branch with its two targets exchanged
BranchOn_Swapped(e, true_label, false_label) ==
    add_branch2_op(e.cg, e.label, e.value, false_label, true_label)

BranchOn(e, true_label, false_label) ==
    add_branch2_op(e.cg, e.label, e.value, true_label, false_label)

process_expression(g, expr, cur_label) ==
    IF ~Ok(g) THEN R(g, cur_label, NoValue)
    ELSE CASE expr.k = "LitVar" ->
                LET v == get_variable(g, cur_label, expr.name)
                IN IF v = NoValue THEN R(Abort(g, "get_variable"), cur_label, NoValue)
                   ELSE R(g, cur_label, v)
           [] expr.k = "LitInt" -> R(g, cur_label, LitInt(expr.v))
           [] expr.k = "LitBool" -> R(g, cur_label, LitBool(expr.v))
           [] expr.k = "LitStr" -> LowerLitStr(g, expr, cur_label)
           [] expr.k = "LitNull" -> R(g, cur_label, LitNullPtr(<<>>))
           [] expr.k = "CastType" -> LowerCastType(g, expr, cur_label)
           [] expr.k = "FunCall" ->
                process_fun_call(g, GlobalRegister(expr.name, get_function_type(expr.name)),
                                 <<>>, expr.args, cur_label)
           [] expr.k = "BinaryOp" /\ IsLogic(expr.op) -> LowerLogic(g, expr, cur_label)
           [] expr.k = "BinaryOp" /\ IsArith(expr.op) -> LowerArith(g, expr, cur_label)
           [] expr.k = "BinaryOp" /\ IsCmp(expr.op) -> LowerCompare(g, expr, cur_label)
           [] expr.k = "UnaryOp" -> LowerUnaryOp(g, expr, cur_label)
           [] expr.k = "NewArray" -> LowerNewArray(g, expr, cur_label)
           [] expr.k = "NewObject" -> LowerNewObject(g, expr, cur_label)
           [] expr.k \in {"ArrayElem", "ObjField"} -> LowerLoad(g, expr, cur_label)
           [] expr.k = "ObjMethodCall" -> LowerObjMethodCall(g, expr, cur_label)

\* returns the builder
process_expression_cond(g, expr, cur_label, true_label, false_label) ==
    IF ~Ok(g) THEN g
    ELSE IF expr.k = "BinaryOp" /\ expr.op = "And" THEN
        process_expression_cond(
            process_expression_cond(allocate_new_block(g, cur_label), expr.lhs,
                                    cur_label, Len(g.blocks), false_label),
            expr.rhs, Len(g.blocks), true_label, false_label)
    ELSE IF expr.k = "BinaryOp" /\ expr.op = "Or" THEN
        process_expression_cond(
            process_expression_cond(allocate_new_block(g, cur_label), expr.lhs,
                                    cur_label, true_label, Len(g.blocks)),
            expr.rhs, Len(g.blocks), true_label, false_label)
    ELSE IF expr.k = "UnaryOp" /\ expr.op = "BoolNeg" THEN
        process_expression_cond(g, expr.e, cur_label, false_label, true_label)
    ELSE BranchOn(process_expression(g, expr, cur_label), true_label, false_label)

(***************************************************************************)
(* The phi engine.  `names` of the source is a HashSet; the order in which  *)
(* its iteration yields the names is the parameter order, a sequence        *)
(* without repetition over the set.                                         *)
(***************************************************************************)
Orders(S) ==
    {o \in [1..Cardinality(S) -> S] : \A i, j \in DOMAIN o : i # j => o[i] # o[j]}

RECURSIVE PhiSetForIfFrom(_, _, _, _, _, _, _, _)
\* the `for name in names` loop of calculate_phi_set_for_if, from order[i] on
PhiSetForIfFrom(g, order, i, common_pred, common_succ, br1, br1_proxy, br2pair) ==
    IF i > Len(order) \/ ~Ok(g) THEN g
    ELSE
    LET name == order[i]
        value0 == get_variable(g, common_pred, name)
        value1 == get_variable(g, br1_proxy, name)
        value2 == get_variable(g, br2pair[2], name)
        reg_num == g.next_reg_num
        reg_type == get_type(value1)
        g1 == IF NoValue \in {value0, value1, value2} THEN Abort(g, "get_variable")
              ELSE IF value0 # value1 \/ value0 # value2
              THEN IF value1 = value2
                   THEN update_existing_local_variable(g, common_succ, name, value1)
                   ELSE update_existing_local_variable(
                            InsertPhi(get_new_reg_num(g), common_succ,
                                      PhiEntry(reg_num, reg_type,
                                               <<<<value1, br1>>, <<value2, br2pair[1]>>>>)),
                            common_succ, name, Register(reg_num, reg_type))
              ELSE g
    IN PhiSetForIfFrom(g1, order, i + 1, common_pred, common_succ, br1, br1_proxy, br2pair)

\* the join that pairs the value of each branch with the end of the other
calculate_phi_set_for_if_Crossed(g, common_pred, common_succ, br1pair, br2pair, order) ==
    PhiSetForIfFrom(g, order, 1, common_pred, common_succ, br2pair[1], br1pair[2],
                    <<br1pair[1], br2pair[2]>>)

\* br1pair = (br1, br1_proxy), br2pair = (br2, br2_proxy)
calculate_phi_set_for_if(g, common_pred, common_succ, br1pair, br2pair, order) ==
    PhiSetForIfFrom(g, order, 1, common_pred, common_succ, br1pair[1], br1pair[2], br2pair)

RECURSIVE StubFrom(_, _, _, _, _, _)
StubFrom(g, order, i, pred_label, cond_label, stub_info) ==
    IF i > Len(order) \/ ~Ok(g) THEN <<g, stub_info>>
    ELSE
    LET name == order[i]
        value == get_variable(g, pred_label, name)
        reg_num == g.next_reg_num
        phi_value == Register(reg_num, get_type(value))
        g1 == update_existing_local_variable(get_new_reg_num(g), cond_label, name, phi_value)
    IN StubFrom(g1, order, i + 1, pred_label, cond_label,
                Append(stub_info, <<name, value, phi_value>>))

\* only the name that comes first in the iteration gets a stub
prepare_env_and_stub_phi_set_for_loop_cond_Head(g, pred_label, cond_label, order) ==
    StubFrom(g, IF order = <<>> THEN <<>> ELSE <<order[1]>>, 1, pred_label, cond_label,
             <<>>)

\* stubs that are handed out but not bound in the environment
prepare_env_and_stub_phi_set_for_loop_cond_Unbound(g, pred_label, cond_label, order) ==
    <<[g EXCEPT !.next_reg_num = StubFrom(g, order, 1, pred_label, cond_label, <<>>)[1]
                                     .next_reg_num],
      StubFrom(g, order, 1, pred_label, cond_label, <<>>)[2]>>

\* returns <<builder, stub_info>>
prepare_env_and_stub_phi_set_for_loop_cond(g, pred_label, cond_label, order) ==
    StubFrom(g, order, 1, pred_label, cond_label, <<>>)

RECURSIVE FinalizeFrom(_, _, _, _, _, _, _)
FinalizeFrom(g, stub_info, i, pred_label, cond_label, proxy_label, end_body_label) ==
    IF i > Len(stub_info) \/ ~Ok(g) THEN g
    ELSE
    LET name == stub_info[i][1]
        value1 == stub_info[i][2]
        phi_value == stub_info[i][3]
        back == end_body_label # UNREACHABLE_LABEL
        value2 == get_variable(g, proxy_label[1], name)
        phi_vec == IF back THEN <<<<value1, pred_label>>, <<value2, end_body_label>>>>
                   ELSE <<<<value1, pred_label>>>>
        g1 == IF back /\ proxy_label = <<>> THEN Abort(g, "proxy_label.unwrap()")
              ELSE IF back /\ value2 = NoValue THEN Abort(g, "get_variable")
              ELSE InsertPhi(g, cond_label, PhiEntry(phi_value.i, phi_value.t[1], phi_vec))
    IN FinalizeFrom(g1, stub_info, i + 1, pred_label, cond_label, proxy_label,
                    end_body_label)

\* the stubs are left without their phi-entries
finalize_phi_set_for_loop_cond_Skipped(g, pred_label, cond_label, proxy_label, stub_info) ==
    g

\* the end of the body is taken to be the first predecessor of the header
finalize_phi_set_for_loop_cond_First(g, pred_label, cond_label, proxy_label, stub_info) ==
    IF ~Ok(g) THEN g
    ELSE FinalizeFrom(g, stub_info, 1, pred_label, cond_label, proxy_label,
                      get_block(g, cond_label).predecessors[1])

\* proxy_label: Option<Label> as a sequence of length 0 or 1
finalize_phi_set_for_loop_cond(g, pred_label, cond_label, proxy_label, stub_info) ==
    IF ~Ok(g) THEN g
    ELSE LET preds == get_block(g, cond_label).predecessors
         IN IF Len(preds) \notin {1, 2} THEN Abort(g, "assert_eq!(preds.len(), 2)")
            ELSE LET end_body_label ==
                        IF Len(preds) = 1 THEN UNREACHABLE_LABEL
                        ELSE IF preds[1] # pred_label THEN preds[1] ELSE preds[2]
                 IN FinalizeFrom(g, stub_info, 1, pred_label, cond_label, proxy_label,
                                 end_body_label)

(***************************************************************************)
(* Statements that make no recursive process_block call.  Each returns      *)
(* L(builder, cur_label).                                                   *)
(***************************************************************************)
L(g, label) == [cg |-> g, label |-> label]

RECURSIVE DeclItems(_, _, _, _, _)
\* lines 267-285: the initial value of a declaration without initialiser
DefaultValue(g, var_type, cur_label) ==
    IF var_type.arr > 0 \/ var_type.k \in {"String", "Class"}
    THEN R(g, cur_label, LitNullPtr(<<from_ast(var_type)>>))
    ELSE IF var_type.k = "Int" THEN R(g, cur_label, LitInt(0))
    ELSE IF var_type.k = "Bool" THEN R(g, cur_label, LitBool(FALSE))
    ELSE R(Abort(g, "declaration of Null or Void"), cur_label, NoValue)

\* lines 286-290: item i is bound to its value e, and the loop goes on
DeclBind(e, var_type, var_items, i) ==
    DeclItems(add_new_local_variable(e.cg, e.label, var_items[i][1], e.value),
              var_type, var_items, i + 1, e.label)

\* lines 265-292, from var_items[i] on
DeclItems(g, var_type, var_items, i, cur_label) ==
    IF i > Len(var_items) \/ ~Ok(g) THEN L(g, cur_label)
    ELSE DeclBind(IF var_items[i][2] # <<>>
                  THEN process_expression(g, var_items[i][2][1], cur_label)
                  ELSE DefaultValue(g, var_type, cur_label),
                  var_type, var_items, i)

\* lines 301-309: the address ref of the target is computed, the value is stored
StoreTo(ref, value) == L(Push(ref.cg, ref.label, Store(value, ref.value)), ref.label)

\* lines 295-311, on the lowered right-hand side
AssignTo(r, lhs) ==
    IF ~Ok(r.cg) THEN L(r.cg, r.label)
    ELSE IF lhs.k = "LitVar"
      THEN L(update_existing_local_variable(r.cg, r.label, lhs.name, r.value), r.label)
    ELSE IF lhs.k \in {"ArrayElem", "ObjField"}
      THEN StoreTo(process_lvalue_ref_expression(r.cg, lhs, r.label), r.value)
    ELSE L(Abort(r.cg, "assignment target"), r.label)

\* lines 293-312
LowerAssign(g, stmt, cur_label) ==
    AssignTo(process_expression(g, stmt.rhs, cur_label), stmt.lhs)

\* lines 331-347: load, add or subtract one, store back
IncrDecrAt(ref, op) ==
    LET loaded_reg == ref.cg.next_reg_num
        changed_reg == loaded_reg + 1
        g1 == Push(get_new_reg_num(get_new_reg_num(ref.cg)), ref.label,
                   Load(loaded_reg, ref.value))
        g2 == Push(g1, ref.label,
                   Arithmetic(changed_reg, op, Register(loaded_reg, TInt), LitInt(1)))
        g3 == Push(g2, ref.label, Store(Register(changed_reg, TInt), ref.value))
    IN IF ~Ok(ref.cg) THEN L(ref.cg, ref.label) ELSE L(g3, ref.label)

\* lines 313-351
LowerIncrDecr(g, stmt, cur_label) ==
    LET op == IF stmt.k = "Incr" THEN "Add" ELSE "Sub"
    IN IF stmt.lhs.k = "LitVar" THEN
         LET new_reg == g.next_reg_num
             val_l == get_variable(g, cur_label, stmt.lhs.name)
             g1 == Push(get_new_reg_num(g), cur_label,
                        Arithmetic(new_reg, op, val_l, LitInt(1)))
         IN IF val_l = NoValue THEN L(Abort(g, "get_variable"), cur_label)
            ELSE L(update_existing_local_variable(g1, cur_label, stmt.lhs.name,
                                                  Register(new_reg, TInt)), cur_label)
       ELSE IF stmt.lhs.k \in {"ArrayElem", "ObjField"}
         THEN IncrDecrAt(process_lvalue_ref_expression(g, stmt.lhs, cur_label), op)
       ELSE L(Abort(g, "increment target"), cur_label)

\* lines 354-364, on the lowered value
ReturnValue(e) ==
    IF ~Ok(e.cg) THEN L(e.cg, e.label)
    ELSE L(Push(e.cg, e.label,
                Return(IF e.value.k = "Register" /\ e.value.t[1] = TVoid
                       THEN <<>> ELSE <<e.value>>)),
           e.label)

\* lines 352-366; the caller returns UNREACHABLE_LABEL
LowerRet(g, stmt, cur_label) ==
    IF stmt.e # <<>> THEN ReturnValue(process_expression(g, stmt.e[1], cur_label))
    ELSE L(Push(g, cur_label, Return(<<>>)), cur_label)

\* process_block's prologue (lines 244-250): returns L(builder, cur_label)
EnterBlock(g, parent_label, allocate_new_label) ==
    IF allocate_new_label
    THEN LET new_label == Len(g.blocks)
         IN L(add_branch1_op(allocate_new_block(g, parent_label), parent_label, new_label),
              new_label)
    ELSE L(g, parent_label)

(***************************************************************************)
(* The machine.  stack holds the activations, innermost last: an            *)
(* activation of process_block is Stmts(rest of block.stmts, cur_label);    *)
(* between a process_block activation and the one it called sits the        *)
(* record of the call site with the locals the caller needs afterwards.     *)
(* ret is the label the last finished process_block returned, NoLabel when  *)
(* no return is pending.                                                    *)
(***************************************************************************)
Stmts(stmts, cur_label) == [k |-> "process_block", stmts |-> stmts, cur |-> cur_label]

Top == stack[Len(stack)]
Below(n) == SubSeq(stack, 1, Len(stack) - n)

\* a statement of the innermost activation is next
AtStmt(kind) ==
    /\ pc = "body" /\ ret = NoLabel
    /\ Top.k = "process_block" /\ Top.stmts # <<>>
    /\ Head(Top.stmts).k = kind

\* a process_block called from call site `kind` has returned
AtReturn(kind) ==
    /\ pc = "body" /\ ret # NoLabel
    /\ Top.k = kind

\* the statement is done and the loop goes on with cur_label
Goto(g, cur_label) ==
    /\ cg' = g
    /\ pc' = IF Ok(g) THEN "body" ELSE "aborted"
    /\ stack' = Append(Below(1), Stmts(Tail(Top.stmts), cur_label))
    /\ ret' = NoLabel
    /\ UNCHANGED <<fun_def, ir_args>>

\* the same, for a statement lowered to r = L(builder, cur_label)
GotoL(r) == Goto(r.cg, r.label)

\* the statement calls process_block(block, parent_label, allocate_new_label)
Call(g, site, block, parent_label, allocate_new_label) ==
    LET e == EnterBlock(g, parent_label, allocate_new_label)
    IN /\ cg' = e.cg
       /\ pc' = IF Ok(e.cg) THEN "body" ELSE "aborted"
       /\ stack' = Below(1) \o <<Stmts(Tail(Top.stmts), Top.cur), site, Stmts(block, e.label)>>
       /\ ret' = NoLabel
       /\ UNCHANGED <<fun_def, ir_args>>

\* a call site calls process_block again (the else branch after the then branch)
CallAgain(g, site, block, parent_label) ==
    /\ cg' = g
    /\ pc' = IF Ok(g) THEN "body" ELSE "aborted"
    /\ stack' = Below(1) \o <<site, Stmts(block, parent_label)>>
    /\ ret' = NoLabel
    /\ UNCHANGED <<fun_def, ir_args>>

\* after a return into a call site: the caller's loop goes on with cur_label
Resume(g, cur_label) ==
    /\ cg' = g
    /\ pc' = IF Ok(g) THEN "body" ELSE "aborted"
    /\ stack' = Append(Below(2), [stack[Len(stack) - 1] EXCEPT !.cur = cur_label])
    /\ ret' = NoLabel
    /\ UNCHANGED <<fun_def, ir_args>>

\* after a return into a call site: the caller itself returns label
ReturnFrom(g, label) ==
    /\ cg' = g
    /\ pc' = IF Ok(g) THEN "body" ELSE "aborted"
    /\ stack' = Below(2)
    /\ ret' = label
    /\ UNCHANGED <<fun_def, ir_args>>

InitCodeGen ==
    [blocks |-> <<>>,
     frames |-> (ARGS_LABEL :> EnvFrame(NoLabel)),
     next_proxy_frame |-> FIRST_PROXY_LABEL,
     next_reg_num |-> 0,
     global_strings |-> <<>>,
     aborted |-> "",
     log |-> <<>>, tag |-> <<>>, argend |-> <<>>, decl |-> {}, prior |-> <<>>]

RECURSIVE AddToArgs(_, _, _)
\* the add_to_args closure over params[i..]: returns <<builder, ir_args>>
AddToArgs(g, params, i) ==
    IF i > Len(params) THEN <<g, <<>>>>
    ELSE LET reg_num == g.next_reg_num
             arg_type == params[i][1]
             g1 == add_new_local_variable(get_new_reg_num(g), ARGS_LABEL, params[i][2],
                                          Register(reg_num, arg_type))
             rest == AddToArgs(g1, params, i + 1)
         IN <<rest[1], <<<<reg_num, arg_type>>>> \o rest[2]>>

\* generate_function_ir up to the call of process_block (lines 189-222)
GenerateStart ==
    /\ pc = "start"
    /\ LET this_param == IF fun_def.class = <<>> THEN <<>>
                         ELSE <<<<from_class_name(fun_def.class[1]), "this">>>>
           params == this_param
                     \o [i \in 1..Len(fun_def.args) |->
                            <<from_ast(fun_def.args[i][1]), fun_def.args[i][2]>>]
           a == AddToArgs(cg, params, 1)
           entry_point == Len(a[1].blocks)
           g == allocate_new_block(a[1], ARGS_LABEL)
       IN /\ cg' = g
          /\ ir_args' = a[2]
          /\ stack' = <<[k |-> "generate_function_ir"], Stmts(fun_def.body, entry_point)>>
          /\ pc' = IF Ok(g) THEN "body" ELSE "aborted"
    /\ UNCHANGED <<fun_def, ret>>

\* generate_function_ir after process_block returned (lines 223-236)
GenerateFinish ==
    /\ AtReturn("generate_function_ir")
    /\ LET g == IF ret # UNREACHABLE_LABEL THEN Push(cg, ret, Return(<<>>)) ELSE cg
       IN /\ cg' = g
          /\ pc' = IF Ok(g) THEN "done" ELSE "aborted"
    /\ stack' = <<>>
    /\ UNCHANGED <<fun_def, ir_args, ret>>

\* the for loop of process_block is over: return cur_label (line 598)
BlockEnd ==
    /\ pc = "body" /\ ret = NoLabel
    /\ Top.k = "process_block" /\ Top.stmts = <<>>
    /\ stack' = Below(1)
    /\ ret' = Top.cur
    /\ UNCHANGED <<fun_def, cg, ir_args, pc>>

StmtEmpty ==
    /\ AtStmt("Empty")
    /\ Goto(cg, Top.cur)

StmtDecl ==
    /\ AtStmt("Decl")
    /\ GotoL(DeclItems(cg, Head(Top.stmts).t, Head(Top.stmts).items, 1, Top.cur))

StmtAssign ==
    /\ AtStmt("Assign")
    /\ GotoL(LowerAssign(cg, Head(Top.stmts), Top.cur))

StmtIncr ==
    /\ AtStmt("Incr")
    /\ GotoL(LowerIncrDecr(cg, Head(Top.stmts), Top.cur))

StmtDecr ==
    /\ AtStmt("Decr")
    /\ GotoL(LowerIncrDecr(cg, Head(Top.stmts), Top.cur))

StmtExpr ==
    /\ AtStmt("Expr")
    /\ GotoL(process_expression(cg, Head(Top.stmts).e, Top.cur))

\* Ret that goes on with the rest of the list in the same block
StmtRet_Continues ==
    /\ AtStmt("Ret")
    /\ GotoL(LowerRet(cg, Head(Top.stmts), Top.cur))

\* Ret: the activation returns UNREACHABLE_LABEL, the rest of the list is dropped
StmtRet ==
    /\ AtStmt("Ret")
    /\ \E r \in {LowerRet(cg, Head(Top.stmts), Top.cur)} :
          /\ cg' = r.cg
          /\ pc' = IF Ok(r.cg) THEN "body" ELSE "aborted"
    /\ stack' = Below(1)
    /\ ret' = UNREACHABLE_LABEL
    /\ UNCHANGED <<fun_def, ir_args>>

\* Block(bl) (lines 256-264)
StmtBlock ==
    /\ AtStmt("Block")
    /\ Call(cg, [k |-> "Block", cur |-> Top.cur], Head(Top.stmts).stmts, Top.cur, TRUE)

\* lines 258-263, and the same code at 374-379 and 384-389
AfterNested(site) ==
    IF ret = UNREACHABLE_LABEL THEN ReturnFrom(cg, UNREACHABLE_LABEL)
    ELSE LET cont_label == Len(cg.blocks)
             g == add_branch1_op(allocate_new_block(cg, site.cur), ret, cont_label)
         IN Resume(g, cont_label)

ReturnBlock ==
    /\ AtReturn("Block")
    /\ AfterNested(Top)

IsLit(expr, b) == expr.k = "LitBool" /\ expr.v = b

\* Cond with the literal true as condition (lines 372-380)
StmtCondTrue ==
    /\ AtStmt("Cond") /\ IsLit(Head(Top.stmts).cond, TRUE)
    /\ Call(cg, [k |-> "CondTrue", cur |-> Top.cur], Head(Top.stmts).t, Top.cur, TRUE)

ReturnCondTrue ==
    /\ AtReturn("CondTrue")
    /\ AfterNested(Top)

\* Cond with the literal false as condition (lines 381-392)
StmtCondFalse ==
    /\ AtStmt("Cond") /\ IsLit(Head(Top.stmts).cond, FALSE)
    /\ IF Head(Top.stmts).f = <<>> THEN Goto(cg, Top.cur)
       ELSE Call(cg, [k |-> "CondFalse", cur |-> Top.cur], Head(Top.stmts).f[1],
                 Top.cur, TRUE)

ReturnCondFalse ==
    /\ AtReturn("CondFalse")
    /\ AfterNested(Top)

\* Cond without else (lines 394-400)
StmtCondIf ==
    /\ AtStmt("Cond")
    /\ Head(Top.stmts).cond.k # "LitBool" /\ Head(Top.stmts).f = <<>>
    /\ LET stmt == Head(Top.stmts)
           cur_label == Top.cur
           true_label == Len(cg.blocks)
           false_label == true_label + 1
           cont_label == true_label + 2
           g1 == allocate_new_block(allocate_new_block(allocate_new_block(
                     cg, cur_label), cur_label), cur_label)
       IN \E g2 \in {process_expression_cond(g1, stmt.cond, cur_label,
                                             true_label, false_label)} :
            Call(create_proxy_env(g2, true_label),
                 [k |-> "CondIf", cur |-> cur_label, true_label |-> true_label,
                  false_label |-> false_label, cont_label |-> cont_label,
                  true_proxy_label |-> g2.next_proxy_frame],
                 stmt.t, true_label, FALSE)

\* lines 401-412
ReturnCondIf ==
    /\ AtReturn("CondIf")
    /\ LET end_true_label == ret
           g1 == add_branch1_op(cg, Top.false_label, Top.cont_label)
           g2 == add_branch1_op(g1, end_true_label, Top.cont_label)
       IN IF end_true_label # UNREACHABLE_LABEL
          THEN \E order \in Orders(get_all_visible_local_variables(g2, Top.cur)) :
                  Resume(calculate_phi_set_for_if(g2, Top.cur, Top.cont_label,
                                                  <<end_true_label, Top.true_proxy_label>>,
                                                  <<Top.false_label, Top.false_label>>,
                                                  order),
                         Top.cont_label)
          ELSE Resume(g1, Top.cont_label)

\* Cond with else (lines 414-420)
StmtCondIfElse ==
    /\ AtStmt("Cond")
    /\ Head(Top.stmts).cond.k # "LitBool" /\ Head(Top.stmts).f # <<>>
    /\ LET stmt == Head(Top.stmts)
           cur_label == Top.cur
           true_label == Len(cg.blocks)
           false_label == true_label + 1
           g1 == allocate_new_block(allocate_new_block(cg, cur_label), cur_label)
       IN \E g2 \in {process_expression_cond(g1, stmt.cond, cur_label,
                                             true_label, false_label)} :
            LET true_proxy_label == g2.next_proxy_frame
                g3 == create_proxy_env(g2, true_label)
                false_proxy_label == g3.next_proxy_frame
                g4 == create_proxy_env(g3, false_label)
            IN Call(g4, [k |-> "CondElseTrue", cur |-> cur_label,
                         true_label |-> true_label, false_label |-> false_label,
                         true_proxy_label |-> true_proxy_label,
                         false_proxy_label |-> false_proxy_label, bl |-> stmt.f[1]],
                    stmt.t, true_label, FALSE)

\* line 421: the true branch is lowered, the false branch is next
ReturnCondElseTrue ==
    /\ AtReturn("CondElseTrue")
    /\ CallAgain(cg, [k |-> "CondElseFalse", cur |-> Top.cur,
                      end_true_label |-> ret,
                      true_proxy_label |-> Top.true_proxy_label,
                      false_proxy_label |-> Top.false_proxy_label],
                 Top.bl, Top.false_label)

\* lines 422-452
ReturnCondElseFalse ==
    /\ AtReturn("CondElseFalse")
    /\ LET end_true_label == Top.end_true_label
           end_false_label == ret
           cont_label == Len(cg.blocks)
           g1 == allocate_new_block(cg, Top.cur)
       IN CASE end_true_label = UNREACHABLE_LABEL /\ end_false_label = UNREACHABLE_LABEL ->
                 ReturnFrom(cg, UNREACHABLE_LABEL)
            [] end_true_label = UNREACHABLE_LABEL /\ end_false_label # UNREACHABLE_LABEL ->
                 Resume(apply_proxy_env(add_branch1_op(g1, end_false_label, cont_label),
                                        Top.false_proxy_label, cont_label),
                        cont_label)
            [] end_true_label # UNREACHABLE_LABEL /\ end_false_label = UNREACHABLE_LABEL ->
                 Resume(apply_proxy_env(add_branch1_op(g1, end_true_label, cont_label),
                                        Top.true_proxy_label, cont_label),
                        cont_label)
            [] OTHER ->
                 LET g2 == add_branch1_op(add_branch1_op(g1, end_false_label, cont_label),
                                          end_true_label, cont_label)
                 IN \E order \in Orders(get_all_visible_local_variables(g2, Top.cur)) :
                       Resume(calculate_phi_set_for_if(
                                  g2, Top.cur, cont_label,
                                  <<end_true_label, Top.true_proxy_label>>,
                                  <<end_false_label, Top.false_proxy_label>>, order),
                              cont_label)

\* while (false) S lowered as a block of its own
StmtWhileFalse_Entered ==
    /\ AtStmt("While") /\ IsLit(Head(Top.stmts).cond, FALSE)
    /\ Call(cg, [k |-> "CondTrue", cur |-> Top.cur], Head(Top.stmts).body, Top.cur, TRUE)

\* While with the literal false as condition (line 457)
StmtWhileFalse ==
    /\ AtStmt("While") /\ IsLit(Head(Top.stmts).cond, FALSE)
    /\ Goto(cg, Top.cur)

\* While with the literal true as condition (lines 458-463)
StmtWhileTrue ==
    /\ AtStmt("While") /\ IsLit(Head(Top.stmts).cond, TRUE)
    /\ LET cur_label == Top.cur
           body_label == Len(cg.blocks)
           g1 == allocate_new_block(cg, cur_label)
       IN \E order \in Orders(get_all_visible_local_variables(g1, cur_label)) :
            LET st == prepare_env_and_stub_phi_set_for_loop_cond(g1, cur_label, body_label,
                                                                 order)
                g2 == add_branch1_op(st[1], cur_label, body_label)
            IN Call(g2, [k |-> "WhileTrue", cur |-> cur_label, body_label |-> body_label,
                         stub_info |-> st[2]],
                    Head(Top.stmts).body, body_label, FALSE)

\* lines 464-468
ReturnWhileTrue ==
    /\ AtReturn("WhileTrue")
    /\ LET end_body_label == ret
           g1 == IF end_body_label # UNREACHABLE_LABEL
                 THEN add_branch1_op(cg, end_body_label, Top.body_label)
                 ELSE cg
       IN ReturnFrom(finalize_phi_set_for_loop_cond(g1, Top.cur, Top.body_label, <<>>,
                                                    Top.stub_info),
                     UNREACHABLE_LABEL)

\* the general While (lines 470-482)
StmtWhile ==
    /\ AtStmt("While") /\ Head(Top.stmts).cond.k # "LitBool"
    /\ LET cur_label == Top.cur
           cond_label == Len(cg.blocks)
           g1 == allocate_new_block(cg, cur_label)
       IN \E order \in Orders(get_all_visible_local_variables(g1, cur_label)) :
            LET st == prepare_env_and_stub_phi_set_for_loop_cond(g1, cur_label, cond_label,
                                                                 order)
                body_label == cond_label + 1
                cont_label == cond_label + 2
                g2 == allocate_new_block(allocate_new_block(st[1], cond_label), cond_label)
                proxy_label == g2.next_proxy_frame
                g3 == create_proxy_env(g2, body_label)
                g4 == add_branch1_op(g3, cur_label, cond_label)
                g5 == process_expression_cond(g4, Head(Top.stmts).cond, cond_label,
                                              body_label, cont_label)
            IN Call(g5, [k |-> "While", cur |-> cur_label, cond_label |-> cond_label,
                         cont_label |-> cont_label, proxy_label |-> proxy_label,
                         stub_info |-> st[2]],
                    Head(Top.stmts).body, body_label, FALSE)

\* lines 483-492
ReturnWhile ==
    /\ AtReturn("While")
    /\ LET end_body_label == ret
           g1 == IF end_body_label # UNREACHABLE_LABEL
                 THEN add_branch1_op(cg, end_body_label, Top.cond_label)
                 ELSE cg
       IN Resume(finalize_phi_set_for_loop_cond(g1, Top.cur, Top.cond_label,
                                                <<Top.proxy_label>>, Top.stub_info),
                 Top.cont_label)

\* the loop variable bound in the frame of the block before the body, the
\* condition block
BindIterator_InHeader(g, body_label, iter_name, loaded_iter_val) ==
    add_new_local_variable(g, body_label - 1, iter_name, loaded_iter_val)

\* lines 556-561: the loop variable lives in a proxy frame of its own, put
\* above the frame of the body
BindIterator(g, body_label, iter_name, loaded_iter_val) ==
    add_new_local_variable(insert_empty_proxy_frame(g, body_label),
                           g.next_proxy_frame, iter_name, loaded_iter_val)

\* ForEach up to the call of process_block for the body (lines 502-571)
StmtForEach ==
    /\ AtStmt("ForEach")
    /\ \E a \in {process_expression(cg, Head(Top.stmts).array, Top.cur)} :
       LET stmt == Head(Top.stmts)
           cur_label == a.label
           arr_val == a.value
           arr_type == get_type(arr_val)
           elem_type == from_ast(stmt.t)
           length_reg == a.cg.next_reg_num
           length_val == Register(length_reg, TInt)
       IN
       \* its length
       \E c \in {generate_calculation_of_ref_to_array_length(get_new_reg_num(a.cg),
                                                             cur_label, arr_val)} :
       \E g1 \in {Push(c[1], cur_label, Load(length_reg, c[2]))} :
       \* base + length = end
       \E g2 \in {Push(get_new_reg_num(g1), cur_label,
                       GetElementPtr(g1.next_reg_num, elem_type,
                                     <<arr_val, length_val>>))} :
       LET end_ptr_val == Register(g1.next_reg_num, arr_type)
           cond_label == Len(g2.blocks)
           body_label == cond_label + 1
           cont_label == cond_label + 2
       IN
       \E g3 \in {allocate_new_block(g2, cur_label)} :
       \E order \in Orders(get_all_visible_local_variables(g3, cur_label)) :
       \E st \in {prepare_env_and_stub_phi_set_for_loop_cond(g3, cur_label, cond_label,
                                                             order)} :
       \E g4 \in {allocate_new_block(allocate_new_block(st[1], cond_label),
                                     cond_label)} :
       \E g6 \in {add_branch1_op(create_proxy_env(g4, body_label), cur_label,
                                 cond_label)} :
       \* loop cond
       LET proxy_label == g4.next_proxy_frame
           cur_it_reg == g6.next_reg_num
           next_it_reg == cur_it_reg + 1
           cond_reg == cur_it_reg + 2
           cur_it_val == Register(cur_it_reg, arr_type)
           next_it_val == Register(next_it_reg, arr_type)
           cond_val == Register(cond_reg, TBool)
       IN
       \E g9 \in {add_branch2_op(
                      Push(get_new_reg_num(get_new_reg_num(get_new_reg_num(g6))),
                           cond_label,
                           Compare(cond_reg, "LT", cur_it_val, end_ptr_val)),
                      cond_label, cond_val, body_label, cont_label)} :
       \* loop body
       \E g10 \in {Push(get_new_reg_num(g9), body_label,
                        Load(g9.next_reg_num, cur_it_val))} :
       \E g11 \in {BindIterator(g10, body_label, stmt.name,
                                Register(g9.next_reg_num, elem_type))} :
       Call(Push(g11, body_label,
                 GetElementPtr(next_it_reg, elem_type, <<cur_it_val, LitInt(1)>>)),
            [k |-> "ForEach", cur |-> cur_label, cond_label |-> cond_label,
             cont_label |-> cont_label, proxy_label |-> proxy_label,
             stub_info |-> st[2], arr_val |-> arr_val, arr_type |-> arr_type,
             cur_it_reg |-> cur_it_reg, next_it_val |-> next_it_val,
             iter_name |-> stmt.name],
            stmt.body, body_label, FALSE)

\* ForEach whose header phi takes the base pointer from the body end as well
ReturnForEach_NoAdvance ==
    /\ AtReturn("ForEach")
    /\ LET end_body_label == ret
           back == end_body_label # UNREACHABLE_LABEL
           g1 == IF back THEN add_branch1_op(cg, end_body_label, Top.cond_label) ELSE cg
           phi_vec == IF back THEN <<<<Top.arr_val, Top.cur>>,
                                     <<Top.arr_val, end_body_label>>>>
                      ELSE <<<<Top.arr_val, Top.cur>>>>
           g2 == finalize_phi_set_for_loop_cond(g1, Top.cur, Top.cond_label,
                                                <<Top.proxy_label>>, Top.stub_info)
       IN Resume(InsertPhi(g2, Top.cond_label,
                           PhiEntry(Top.cur_it_reg, Top.arr_type, phi_vec)),
                 Top.cont_label)

\* lines 572-586
ReturnForEach ==
    /\ AtReturn("ForEach")
    /\ LET end_body_label == ret
           back == end_body_label # UNREACHABLE_LABEL
           g1 == IF back THEN add_branch1_op(cg, end_body_label, Top.cond_label) ELSE cg
           phi_vec == IF back THEN <<<<Top.arr_val, Top.cur>>,
                                     <<Top.next_it_val, end_body_label>>>>
                      ELSE <<<<Top.arr_val, Top.cur>>>>
           g2 == finalize_phi_set_for_loop_cond(g1, Top.cur, Top.cond_label,
                                                <<Top.proxy_label>>, Top.stub_info)
       IN Resume(InsertPhi(g2, Top.cond_label,
                           PhiEntry(Top.cur_it_reg, Top.arr_type, phi_vec)),
                 Top.cont_label)

(***************************************************************************)
(* The functions the builder is run on.                                     *)
(***************************************************************************)
FunDef(class, ret_type, args, body) ==
    [class |-> class, ret_type |-> ret_type, args |-> args, body |-> body]

X == ELitVar("x")
Lt(a, b) == EBinaryOp(a, "LT", b)
Plus(a, b) == EBinaryOp(a, "Add", b)
And(a, b) == EBinaryOp(a, "And", b)
Or(a, b) == EBinaryOp(a, "Or", b)
Not(a) == EUnaryOp("BoolNeg", a)
CallF(name, args) == EFunCall(name, args)
SetX(e) == SAssign(X, e)
RetX == SRet(<<X>>)
Str(chars) == ELitStr(chars)

\* the seeded scenarios S1-S6 of the specification
S1 == FunDef(<<>>, AInt, <<>>, <<SRet(<<Plus(ELitInt(1), ELitInt(2))>>)>>)
S2 == FunDef(<<>>, AInt, <<<<AInt, "x">>>>,
             <<SCond(EBinaryOp(X, "GT", ELitInt(0)),
                     <<SetX(Plus(X, ELitInt(1)))>>,
                     <<<<SetX(EBinaryOp(X, "Sub", ELitInt(1)))>>>>),
               RetX>>)
S3 == FunDef(<<>>, AInt, <<<<AInt, "n">>>>,
             <<SDecl(AInt, <<<<"s", <<ELitInt(0)>>>>>>),
               SDecl(AInt, <<<<"i", <<ELitInt(0)>>>>>>),
               SWhile(Lt(ELitVar("i"), ELitVar("n")),
                      <<SAssign(ELitVar("s"), Plus(ELitVar("s"), ELitVar("i"))),
                        SAssign(ELitVar("i"), Plus(ELitVar("i"), ELitInt(1)))>>),
               SRet(<<ELitVar("s")>>)>>)
S4 == FunDef(<<>>, AVoid, <<>>,
             <<SCond(And(CallF("isOk", <<>>), CallF("isOk", <<>>)),
                     <<SExpr(CallF("error", <<>>))>>, <<>>)>>)
S5 == FunDef(<<>>, AInt, <<<<AArray(AInt), "a">>>>,
             <<SDecl(AInt, <<<<"s", <<ELitInt(0)>>>>>>),
               SForEach(AInt, "x", ELitVar("a"),
                        <<SAssign(ELitVar("s"), Plus(ELitVar("s"), X))>>),
               SRet(<<ELitVar("s")>>)>>)
S6 == FunDef(<<>>, AVoid, <<>>,
             <<SDecl(AClass("A"), <<<<"p", <<ENewObject(AClass("B"))>>>>>>),
               SExpr(EObjMethodCall(ELitVar("p"), "get", <<>>))>>)

Catalogue == <<S1, S2, S3, S4, S5, S6>>

(***************************************************************************)
(* Nested control flow: a tail statement list wrapped in up to MaxNest      *)
(* enclosing constructs, in  int f(int x, int[] a) { ...; return x; }.      *)
(***************************************************************************)
MaxNest == 1

One(x) == SetX(ELitInt(x))
Tails ==
    { <<SetX(Plus(X, ELitInt(1)))>>,
      <<SCond(Lt(X, ELitInt(1)), <<RetX>>, <<<<One(1)>>>>)>>,
      <<SCond(Lt(X, ELitInt(1)), <<One(1)>>, <<<<RetX>>>>)>>,
      <<SCond(Lt(X, ELitInt(1)), <<One(1)>>, <<>>)>>,
      <<SCond(Lt(X, ELitInt(1)), <<One(1)>>, <<<<One(2)>>>>)>>,
      <<RetX>>,
      <<SDecl(AInt, <<<<"x", <<ELitInt(5)>>>>>>), SIncr(X)>>,
      <<SCond(Lt(X, ELitInt(1)), <<RetX>>, <<<<>>>>), SDecl(AInt, <<<<"x", <<>>>>>>)>> }

Wrap(l) ==
    { SBlock(l),
      SCond(Lt(X, ELitInt(2)), l, <<>>),
      SCond(Lt(X, ELitInt(2)), l, <<<<One(7)>>>>),
      SCond(Lt(X, ELitInt(2)), <<One(7)>>, <<l>>),
      SCond(ELitBool(TRUE), l, <<>>),
      SWhile(Lt(X, ELitInt(2)), l),
      SWhile(ELitBool(TRUE), l),
      SForEach(AInt, "e", ELitVar("a"), l) }

RECURSIVE Nested(_)
\* the statement lists with exactly n enclosing constructs
Nested(n) ==
    IF n = 0 THEN Tails
    ELSE UNION {{<<w>> : w \in Wrap(l)} : l \in Nested(n - 1)}

NestPrograms ==
    { FunDef(<<>>, AInt, <<<<AInt, "x">>, <<AArray(AInt), "a">>>>, l \o <<RetX>>) :
        l \in UNION {Nested(n) : n \in 1..MaxNest} }

(***************************************************************************)
(* Shapes of single statements and expressions.                            *)
(***************************************************************************)
IsOk == CallF("isOk", <<>>)
O == ELitVar("o")
Field(obj, name) == EObjField(obj, <<FALSE>>, name)

\* void f(int x) { ; x--; if (false) x = 1; if (false) x = 2; else x = 3;
\*                 while (false) x = 4; if (true) x = 5; else x = 6; }
Literals ==
    FunDef(<<>>, AVoid, <<<<AInt, "x">>>>,
           <<SEmpty, SDecr(X),
             SCond(ELitBool(FALSE), <<One(1)>>, <<>>),
             SCond(ELitBool(FALSE), <<One(2)>>, <<<<One(3)>>>>),
             SWhile(ELitBool(FALSE), <<One(4)>>),
             SCond(ELitBool(TRUE), <<One(5)>>, <<<<One(6)>>>>)>>)

\* boolean f() { return str(isOk() && isOk()) == "a"; }
StrEq ==
    FunDef(<<>>, ABool, <<>>,
           <<SRet(<<EBinaryOp(CallF("str", <<And(IsOk, IsOk)>>), "EQ", Str(<<"a">>))>>)>>)

\* boolean f(A o) { return mk(isOk() || isOk()) != o; }
PtrNe ==
    FunDef(<<>>, ABool, <<<<AClass("A"), "o">>>>,
           <<SRet(<<EBinaryOp(CallF("mk", <<Or(IsOk, IsOk)>>), "NE", O)>>)>>)

\* void f() { mk(isOk() || isOk()).put(true); }
MethodOnJoin ==
    FunDef(<<>>, AVoid, <<>>,
           <<SExpr(EObjMethodCall(CallF("mk", <<Or(IsOk, IsOk)>>), "put",
                                  <<ELitBool(TRUE)>>))>>)

\* boolean f(A o) { return str(isOk()) == "a" && mk(true) == o; }
EqPlain ==
    FunDef(<<>>, ABool, <<<<AClass("A"), "o">>>>,
           <<SRet(<<And(EBinaryOp(CallF("str", <<IsOk>>), "EQ", Str(<<"a">>)),
                        EBinaryOp(CallF("mk", <<ELitBool(TRUE)>>), "EQ", O))>>)>>)

\* void f(A o, int[] a) { o.v = a[0]; a[1] = o.v; o.next = o; a.length; o.v++; }
StoreSame ==
    FunDef(<<>>, AVoid, <<<<AClass("A"), "o">>, <<AArray(AInt), "a">>>>,
           <<SAssign(Field(O, "v"), EArrayElem(ELitVar("a"), ELitInt(0))),
             SAssign(EArrayElem(ELitVar("a"), ELitInt(1)), Field(O, "v")),
             SAssign(Field(O, "next"), O),
             SExpr(EObjField(ELitVar("a"), <<TRUE>>, "length")),
             SIncr(Field(O, "v"))>>)

\* void f(A o) { o.next = null; }
StoreNullField ==
    FunDef(<<>>, AVoid, <<<<AClass("A"), "o">>>>,
           <<SAssign(Field(O, "next"), ELitNull)>>)

\* void f(A[] a) { a[0] = null; }
StoreNullElem ==
    FunDef(<<>>, AVoid, <<<<AArray(AClass("A")), "a">>>>,
           <<SAssign(EArrayElem(ELitVar("a"), ELitInt(0)), ELitNull)>>)

\* void f(A o) { o.next = new B; }
StoreSubclass ==
    FunDef(<<>>, AVoid, <<<<AClass("A"), "o">>>>,
           <<SAssign(Field(O, "next"), ENewObject(AClass("B")))>>)

\* void f(A o) { o.next = (A) new B; o.next = (A) null; }
StoreCast ==
    FunDef(<<>>, AVoid, <<<<AClass("A"), "o">>>>,
           <<SAssign(Field(O, "next"), ECastType(ENewObject(AClass("B")), AClass("A"))),
             SAssign(Field(O, "next"), ECastType(ELitNull, AClass("A")))>>)

\* void f() { while (true) isOk(); }
WhileTrueNoNames ==
    FunDef(<<>>, AVoid, <<>>, <<SWhile(ELitBool(TRUE), <<SExpr(IsOk)>>)>>)

\* int f(int x) { { if (true) { return x; error(); } error(); } error(); }
DeadCode ==
    FunDef(<<>>, AInt, <<<<AInt, "x">>>>,
           <<SBlock(<<SCond(ELitBool(TRUE),
                            <<RetX, SExpr(CallF("error", <<>>))>>, <<>>),
                      SExpr(CallF("error", <<>>))>>),
             SExpr(CallF("error", <<>>))>>)

\* void f(int[] a) { for (int x : a) p(x); }
ForEachTrace ==
    FunDef(<<>>, AVoid, <<<<AArray(AInt), "a">>>>,
           <<SForEach(AInt, "x", ELitVar("a"), <<SExpr(CallF("p", <<X>>))>>)>>)

\* int f(int x, int y, int z) {
\*   if (x < 1) { x = 1; z = 2; } else { x = 1; z = 3; }  return x + y + z; }
IfJoinCases ==
    FunDef(<<>>, AInt, <<<<AInt, "x">>, <<AInt, "y">>, <<AInt, "z">>>>,
           <<SCond(Lt(X, ELitInt(1)),
                   <<One(1), SAssign(ELitVar("z"), ELitInt(2))>>,
                   <<<<One(1), SAssign(ELitVar("z"), ELitInt(3))>>>>),
             SRet(<<Plus(Plus(X, ELitVar("y")), ELitVar("z"))>>)>>)

\* int f(int x) {
\*   if (x < 2) { if (x < 1) return x; else x = 1; } else return x;
\*   return x; }
OneArmNested ==
    FunDef(<<>>, AInt, <<<<AInt, "x">>>>,
           <<SCond(Lt(X, ELitInt(2)),
                   <<SCond(Lt(X, ELitInt(1)), <<RetX>>, <<<<One(1)>>>>)>>,
                   <<<<RetX>>>>),
             RetX>>)

\* int f(int x) { if (x < 2) return x; else return x; x = 1; }
BothArmsReturn ==
    FunDef(<<>>, AInt, <<<<AInt, "x">>>>,
           <<SCond(Lt(X, ELitInt(2)), <<RetX>>, <<<<RetX>>>>), One(1)>>)

\* boolean f(boolean b) { b || isOk(); return !b && isOk(); }
LogicValue ==
    FunDef(<<>>, ABool, <<<<ABool, "b">>>>,
           <<SExpr(Or(ELitVar("b"), IsOk)),
             SRet(<<And(Not(ELitVar("b")), IsOk)>>)>>)

\* int f(int x, int[] a) { for (int x : a) { x = x + 1; int x = 5; x = 7; }
\*                         return x; }
ForEachShadow ==
    FunDef(<<>>, AInt, <<<<AInt, "x">>, <<AArray(AInt), "a">>>>,
           <<SForEach(AInt, "x", ELitVar("a"),
                      <<SetX(Plus(X, ELitInt(1))),
                        SDecl(AInt, <<<<"x", <<ELitInt(5)>>>>>>),
                        One(7)>>),
             RetX>>)

\* string f() { "a"; "b"; "a"; ""; return "b"; }
StrFirst ==
    FunDef(<<>>, AString, <<>>,
           <<SExpr(Str(<<"a">>)), SExpr(Str(<<"b">>)), SExpr(Str(<<"a">>)),
             SExpr(Str(<<>>)), SRet(<<Str(<<"b">>)>>)>>)

\* string f() { "b"; "a"; return ""; }
StrSecond ==
    FunDef(<<>>, AString, <<>>,
           <<SExpr(Str(<<"b">>)), SExpr(Str(<<"a">>)), SRet(<<Str(<<>>)>>)>>)

\* int f(int x, int[] a) {
\*   while (x < 2) x = x + 1;
\*   if (x < 1) x = 1; else x = 2;
\*   x < 1 && x < 2;
\*   for (int e : a) x = e;
\*   while (x < 3) return x;
\*   return x; }
PhiKinds ==
    FunDef(<<>>, AInt, <<<<AInt, "x">>, <<AArray(AInt), "a">>>>,
           <<SWhile(Lt(X, ELitInt(2)), <<SetX(Plus(X, ELitInt(1)))>>),
             SCond(Lt(X, ELitInt(1)), <<One(1)>>, <<<<One(2)>>>>),
             SExpr(And(Lt(X, ELitInt(1)), Lt(X, ELitInt(2)))),
             SForEach(AInt, "e", ELitVar("a"), <<SetX(ELitVar("e"))>>),
             SWhile(Lt(X, ELitInt(3)), <<RetX>>),
             RetX>>)

\* void f(int x, int[] a) {
\*   for (int e : a) error();
\*   while (x < 2) x = x + 1;
\*   return error(); }
VoidResult ==
    FunDef(<<>>, AVoid, <<<<AInt, "x">>, <<AArray(AInt), "a">>>>,
           <<SForEach(AInt, "e", ELitVar("a"), <<SExpr(CallF("error", <<>>))>>),
             SWhile(Lt(X, ELitInt(2)), <<SetX(Plus(X, ELitInt(1)))>>),
             SRet(<<CallF("error", <<>>)>>)>>)

Shapes ==
    {Literals, LogicValue, ForEachShadow, PhiKinds, VoidResult, StrFirst, StrSecond, DeadCode, ForEachTrace, IfJoinCases, OneArmNested, BothArmsReturn, StrEq, PtrNe, MethodOnJoin, EqPlain,
     StoreSame, StoreNullField, StoreNullElem, StoreSubclass, StoreCast,
     WhileTrueNoNames}

(***************************************************************************)
(* Branch conditions:  void f() { if (a && b) ; }  and the same with ||,    *)
(* where a and b are built over calls p(i) with distinct i, a over          *)
(* p(1), p(2), ... and b over p(11), p(12), ...                            *)
(***************************************************************************)
MaxCondDepth == 1

P(i) == CallF("p", <<ELitInt(i)>>)

RECURSIVE Conds(_, _)
Conds(d, lo) ==
    IF d = 0 THEN {P(lo)}
    ELSE Conds(d - 1, lo)
         \cup {Not(c) : c \in Conds(d - 1, lo)}
         \cup {And(c, P(lo + d)) : c \in Conds(d - 1, lo)}
         \cup {Or(c, P(lo + d)) : c \in Conds(d - 1, lo)}

CondOf(op, a, b) == EBinaryOp(a, op, b)

CondPrograms ==
    { FunDef(<<>>, AVoid, <<>>, <<SCond(CondOf(op, a, b), <<>>, <<>>)>>) :
        op \in {"And", "Or"}, a \in Conds(MaxCondDepth, 1), b \in Conds(MaxCondDepth, 11) }

(***************************************************************************)
(* Calls:  void f(int x, A o) { fn(a1, ..., an); }  and                     *)
(* { o.put(a1); }  with the arguments drawn from ArgPool.                  *)
(***************************************************************************)
MaxArgs == 2

ArgPool ==
    { IsOk,
      And(Lt(X, ELitInt(1)), IsOk),
      Lt(CallF("readInt", <<>>), X),
      EBinaryOp(CallF("f2", <<IsOk, Or(IsOk, Lt(X, ELitInt(2)))>>), "EQ", ELitInt(0)),
      EBinaryOp(CallF("str", <<And(IsOk, IsOk)>>), "EQ", Str(<<"a">>)) }

FunOfArity == <<"f1", "f2", "f3", "f4">>

ArgLists == UNION {[1..n -> ArgPool] : n \in 1..MaxArgs}

CallPrograms ==
    { FunDef(<<>>, AVoid, <<<<AInt, "x">>, <<AClass("A"), "o">>>>,
             <<SExpr(CallF(FunOfArity[Len(args)], args))>>) : args \in ArgLists }
    \cup
    { FunDef(<<>>, AVoid, <<<<AInt, "x">>, <<AClass("A"), "o">>>>,
             <<SExpr(EObjMethodCall(O, "put", <<arg>>))>>) : arg \in ArgPool }

Programs ==
    {Catalogue[i] : i \in DOMAIN Catalogue} \cup NestPrograms \cup Shapes
    \cup CondPrograms \cup CallPrograms

Init ==
    /\ fun_def \in Programs
    /\ cg = InitCodeGen
    /\ ir_args = <<>>
    /\ stack = <<>>
    /\ ret = NoLabel
    /\ pc = "start"

Next ==
    \/ GenerateStart \/ GenerateFinish \/ BlockEnd
    \/ StmtEmpty \/ StmtDecl \/ StmtAssign \/ StmtIncr \/ StmtDecr \/ StmtExpr \/ StmtRet
    \/ StmtBlock \/ ReturnBlock
    \/ StmtCondTrue \/ ReturnCondTrue \/ StmtCondFalse \/ ReturnCondFalse
    \/ StmtCondIf \/ ReturnCondIf
    \/ StmtCondIfElse \/ ReturnCondElseTrue \/ ReturnCondElseFalse
    \/ StmtWhileFalse \/ StmtWhileTrue \/ ReturnWhileTrue \/ StmtWhile \/ ReturnWhile
    \/ StmtForEach \/ ReturnForEach

Spec == Init /\ [][Next]_vars

\* The builds of one program: the table of global strings is shared across
\* function builds, so the builder of the next function starts from the table
\* the finished one left; everything else starts fresh.
NextFunction ==
    /\ pc = "done"
    /\ fun_def' \in Programs
    /\ cg' = [InitCodeGen EXCEPT !.global_strings = cg.global_strings]
    /\ ir_args' = <<>>
    /\ stack' = <<>>
    /\ ret' = NoLabel
    /\ pc' = "start"

NextBuilds == Next \/ NextFunction

\* The same function is built once more from the same input; the ghost
\* cg.prior keeps the Function the first build returned.
BuildAgain ==
    /\ pc = "done" /\ cg.prior = <<>>
    /\ cg' = [InitCodeGen EXCEPT !.prior = <<[args |-> ir_args, blocks |-> cg.blocks]>>]
    /\ ir_args' = <<>>
    /\ stack' = <<>>
    /\ ret' = NoLabel
    /\ pc' = "start"
    /\ UNCHANGED fun_def

NextTwice == Next \/ BuildAgain

SpecTwice == Init /\ [][NextTwice]_vars

SpecBuilds == Init /\ [][NextBuilds]_vars

(***************************************************************************)
(* Properties of the returned Function and of the build.                   *)
(***************************************************************************)
\* generate_function_ir has returned the Function
Returned == pc = "done"

Range(seq) == {seq[i] : i \in DOMAIN seq}

IsTerminator(op) == op.k \in {"Branch1", "Branch2", "Return"}

\* the targets of a branch operation, one per edge
Targets(op) ==
    IF op.k = "Branch1" THEN <<op.dst>>
    ELSE IF op.k = "Branch2" THEN <<op.br1, op.br2>>
    ELSE <<>>

\* C1: in the returned Function every block holds exactly one terminator
\* (Branch1, Branch2 or Return), and it is the last operation of the block.
C1_OneTerminatorLast ==
    Returned =>
        \A i \in DOMAIN cg.blocks :
            /\ cg.blocks[i].body # <<>>
            /\ \A j \in DOMAIN cg.blocks[i].body :
                  IsTerminator(cg.blocks[i].body[j]) <=> j = Len(cg.blocks[i].body)

RECURSIVE OuterValue(_, _, _)
\* the value, at the end of the code lowered into frame, of the variable
\* `name` that was visible before that code: the nearest entry on the parent
\* chain that no declaration inside that code has made
OuterValue(g, frame, name) ==
    IF frame = NoLabel \/ frame \notin DOMAIN g.frames THEN NoValue
    ELSE IF name \in DOMAIN g.frames[frame].locals /\ <<frame, name>> \notin g.decl
      THEN g.frames[frame].locals[name]
    ELSE OuterValue(g, g.frames[frame].parent, name)

\* block join of g holds a phi for name that merges v1 from l1 with v2 from
\* l2, and a read of name at join yields its result
Merged(g, join, name, v1, l1, v2, l2) ==
    \E e \in get_block(g, join).phi_set :
        /\ Range(e.inc) = {<<v1, l1>>, <<v2, l2>>}
        /\ get_variable(g, join, name) = Register(e.r, e.t)

\* the join of an if without else whose branch reaches its end
C2_IfJoin ==
    (AtReturn("CondIf") /\ ret # UNREACHABLE_LABEL /\ Ok(cg')) =>
        \A name \in get_all_visible_local_variables(cg, Top.cur) :
            OuterValue(cg, ret, name) # get_variable(cg, Top.cur, name) =>
                Merged(cg', Top.cont_label, name,
                       OuterValue(cg, ret, name), ret,
                       get_variable(cg, Top.cur, name), Top.false_label)

\* the join of an if with else both of whose branches reach their end
C2_IfElseJoin ==
    (AtReturn("CondElseFalse") /\ Top.end_true_label # UNREACHABLE_LABEL
       /\ ret # UNREACHABLE_LABEL /\ Ok(cg')) =>
        \A name \in get_all_visible_local_variables(cg, Top.cur) :
            OuterValue(cg, Top.end_true_label, name) # OuterValue(cg, ret, name) =>
                Merged(cg', Len(cg.blocks), name,
                       OuterValue(cg, Top.end_true_label, name), Top.end_true_label,
                       OuterValue(cg, ret, name), ret)

\* the condition block of a loop whose body reaches its end
C2_LoopJoin ==
    ((AtReturn("While") \/ AtReturn("ForEach")) /\ ret # UNREACHABLE_LABEL /\ Ok(cg')) =>
        \A i \in DOMAIN Top.stub_info :
            Top.stub_info[i][2] # OuterValue(cg, ret, Top.stub_info[i][1]) =>
                Merged(cg', Top.cond_label, Top.stub_info[i][1],
                       Top.stub_info[i][2], Top.cur,
                       OuterValue(cg, ret, Top.stub_info[i][1]), ret)

\* C2: phi-completeness.  Whenever a block gets its second predecessor, every
\* name visible before the construct whose values at the ends of the two
\* predecessors differ has a phi-entry there merging exactly these two
\* values, and a read of the name at the join yields the phi result.
C2_PhiComplete == [][C2_IfJoin /\ C2_IfElseJoin /\ C2_LoopJoin]_vars

\* the ids defined in the Function, each with the place that defines it
ResultOf(op) ==
    IF op.k = "FunctionCall" THEN op.res
    ELSE IF op.k \in {"Arithmetic", "Compare", "GetElementPtr", "Load", "CastPtr",
                      "CastPtrToInt", "CastGlobalString"} THEN <<op.r>>
    ELSE <<>>

Definitions ==
    {<<ir_args[i][1], "param", i, 0>> : i \in DOMAIN ir_args}
    \cup UNION {{<<ResultOf(cg.blocks[b].body[j])[1], "op", b, j>> :
                   j \in {k \in DOMAIN cg.blocks[b].body :
                            ResultOf(cg.blocks[b].body[k]) # <<>>}} :
                b \in DOMAIN cg.blocks}
    \cup UNION {{<<e.r, "phi", b, e>> : e \in cg.blocks[b].phi_set} :
                b \in DOMAIN cg.blocks}

\* C3: SSA uniqueness.  No id is defined twice, counting the parameter ids,
\* the result ids of the operations and the result ids of the phi-entries of
\* all blocks.
C3_SsaUnique ==
    \A d1, d2 \in Definitions : d1[1] = d2[1] => d1 = d2

\* a returned Function with a parameter, an operation result and a phi-entry
C3_Witness ==
    /\ Returned
    /\ \E d1, d2, d3 \in Definitions : d1[2] = "param" /\ d2[2] = "op" /\ d3[2] = "phi"

\* the number of edges from block src to block dst
Edges(src, dst) ==
    Cardinality({<<j, t>> \in (DOMAIN get_block(cg, src).body) \X {1, 2} :
                    /\ t \in DOMAIN Targets(get_block(cg, src).body[j])
                    /\ Targets(get_block(cg, src).body[j])[t] = dst})

Labels == 0..(Len(cg.blocks) - 1)

\* C4: at every point of the build and in the returned Function, the
\* predecessors list of every block L holds a label S exactly as many times
\* as the branch operations of S have an edge to L (one for Branch1(L), one
\* per arm of a Branch2 that equals L), and holds no other label.
C4_PredecessorsAreEdges ==
    \A dst \in Labels :
        /\ Range(get_block(cg, dst).predecessors) \subseteq Labels
        /\ \A src \in Labels :
              Cardinality({i \in DOMAIN get_block(cg, dst).predecessors :
                              get_block(cg, dst).predecessors[i] = src})
                = Edges(src, dst)

\* during the build, a block with two predecessors one of which reaches it by
\* an arm of a Branch2
C4_Witness ==
    /\ pc = "body"
    /\ \E dst, src \in Labels :
          /\ Len(get_block(cg, dst).predecessors) = 2
          /\ Edges(src, dst) = 1
          /\ \E j \in DOMAIN get_block(cg, src).body :
                /\ get_block(cg, src).body[j].k = "Branch2"
                /\ dst \in Range(Targets(get_block(cg, src).body[j]))

\* the labels that the branch operations of block l name
Successors(l) ==
    UNION {Range(Targets(get_block(cg, l).body[j])) : j \in DOMAIN get_block(cg, l).body}

RECURSIVE Reach(_)
\* the labels reachable along branch targets from the labels in seen
Reach(seen) ==
    IF UNION {Successors(l) : l \in seen} \subseteq seen
    THEN seen
    ELSE Reach(seen \cup UNION {Successors(l) : l \in seen})

\* C5: in the returned Function every allocated block is reachable from the
\* entry block, label 0, along the targets of Branch1 and Branch2.
C5_AllBlocksReachable ==
    Returned => Reach({0}) = Labels

\* a returned Function of at least four blocks, one of them ending in Branch2
C5_Witness ==
    /\ Returned
    /\ Len(cg.blocks) >= 4
    /\ \E l \in Labels : \E j \in DOMAIN get_block(cg, l).body :
          get_block(cg, l).body[j].k = "Branch2"

\* C6: lowering `while (true) S`, where S reaches its end, completes without
\* aborting, whatever names are visible at the loop: it emits the back edge
\* from the end of the body to the body block, allocates no continuation
\* block and returns UNREACHABLE_LABEL.
C6_WhileTrueCompletes ==
    [][(AtReturn("WhileTrue") /\ ret # UNREACHABLE_LABEL) =>
          /\ Ok(cg') /\ pc' = "body"
          /\ get_block(cg', ret).body
               = Append(get_block(cg, ret).body, Branch1(Top.body_label))
          /\ Len(cg'.blocks) = Len(cg.blocks)
          /\ ret' = UNREACHABLE_LABEL]_vars

\* the panics of the Env operations
EnvAborts ==
    {"allocate_new_frame", "add_new_local_variable: no frame",
     "add_new_local_variable: redeclared", "update_existing_local_variable",
     "insert_empty_proxy_frame", "get_variable"}

\* C7: for a well-scoped body the lowering never aborts in an environment
\* operation: no declaration hits a name already in the locals of its frame
\* and no lookup or update misses, also for a declaration that shadows an
\* outer variable after an if/else in which exactly one branch returns.
C7_EnvNeverAborts == cg.aborted \notin EnvAborts

AllOps == UNION {Range(cg.blocks[b].body) : b \in DOMAIN cg.blocks}

\* the values an operation reads
Operands(op) ==
    CASE op.k = "Return" -> Range(op.v)
      [] op.k = "FunctionCall" -> {op.f} \cup Range(op.args)
      [] op.k \in {"Arithmetic", "Compare"} -> {op.lhs, op.rhs}
      [] op.k = "GetElementPtr" -> Range(op.idx)
      [] op.k \in {"CastGlobalString", "CastPtr", "CastPtrToInt"} -> {op.v}
      [] op.k = "Load" -> {op.addr}
      [] op.k = "Store" -> {op.v, op.addr}
      [] op.k = "Branch2" -> {op.cond}
      [] OTHER -> {}

\* the values read anywhere in the Function
AllUses ==
    UNION {Operands(op) : op \in AllOps}
    \cup UNION {{e.inc[i][1] : i \in DOMAIN e.inc} :
                e \in UNION {cg.blocks[b].phi_set : b \in DOMAIN cg.blocks}}

\* C8: type soundness of memory and branch operations.  The address of every
\* Load has a type Ptr(T) and every use of its result has type T; every
\* Store(v, p) has get_type(p) = Ptr(get_type(v)), also when v is the null
\* literal or a pointer to a subclass; the condition of every Branch2 has
\* type Bool.
C8_TypeSound ==
    \A op \in AllOps :
        /\ op.k = "Load" =>
              /\ IsPtr(get_type(op.addr))
              /\ \A v \in AllUses :
                    (v.k = "Register" /\ v.i = op.r) =>
                        get_type(v) = Pointee(get_type(op.addr))
        /\ op.k = "Store" => get_type(op.addr) = Ptr(get_type(op.v))
        /\ op.k = "Branch2" => get_type(op.cond) = TBool

RECURSIVE LeafIds(_)
\* the numbers i of the calls p(i) in a condition
LeafIds(expr) ==
    CASE expr.k = "FunCall" -> {expr.args[1].v}
      [] expr.k = "BinaryOp" -> LeafIds(expr.lhs) \cup LeafIds(expr.rhs)
      [] expr.k = "UnaryOp" -> LeafIds(expr.e)
      [] OTHER -> {}

RECURSIVE Eval(_, _)
\* the truth value of a condition when p(i) returns asg[i]
Eval(expr, asg) ==
    CASE expr.k = "FunCall" -> asg[expr.args[1].v]
      [] expr.k = "BinaryOp" /\ expr.op = "And" -> Eval(expr.lhs, asg) /\ Eval(expr.rhs, asg)
      [] expr.k = "BinaryOp" /\ expr.op = "Or" -> Eval(expr.lhs, asg) \/ Eval(expr.rhs, asg)
      [] expr.k = "UnaryOp" -> ~Eval(expr.e, asg)

RECURSIVE LogicSubs(_)
\* the && and || sub-expressions of a condition, itself included
LogicSubs(expr) ==
    CASE expr.k = "BinaryOp" ->
            (IF IsLogic(expr.op) THEN {expr} ELSE {})
            \cup LogicSubs(expr.lhs) \cup LogicSubs(expr.rhs)
      [] expr.k = "UnaryOp" -> LogicSubs(expr.e)
      [] OTHER -> {}

RECURSIVE Called(_, _, _, _, _)
\* the calls p(i) made when the Function runs on from operation j of block
\* label, with the registers regs and p(i) returning asg[i]; fuel bounds the
\* number of operations run
Called(asg, label, j, regs, fuel) ==
    IF fuel = 0 \/ ~IsBlock(cg, label) THEN {}
    ELSE IF j > Len(get_block(cg, label).body) THEN {}
    ELSE LET op == get_block(cg, label).body[j]
         IN CASE op.k = "FunctionCall" /\ op.f.s = "p" ->
                   {op.args[1].i}
                   \cup Called(asg, label, j + 1,
                               (op.res[1] :> asg[op.args[1].i]) @@ regs, fuel - 1)
              [] op.k = "Branch2" ->
                   Called(asg, IF regs[op.cond.i] THEN op.br1 ELSE op.br2, 1, regs, fuel - 1)
              [] op.k = "Branch1" -> Called(asg, op.dst, 1, regs, fuel - 1)
              [] op.k = "Return" -> {}
              [] OTHER -> Called(asg, label, j + 1, regs, fuel - 1)

\* the calls made by a run of the returned Function from its entry
CalledFromEntry(asg) == Called(asg, 0, 1, <<>>, Len(cg.log) + 1)

\* the condition of  void f() { if (cond) ; }
TheCond == fun_def.body[1].cond

\* C9: short-circuit.  For every a && b lowered as a branch condition, no
\* run of the Function on which a is false evaluates any part of b; for every
\* a || b, no run on which a is true evaluates any part of b.
C9_ShortCircuit ==
    (Returned /\ fun_def \in CondPrograms) =>
        \A asg \in [LeafIds(TheCond) -> BOOLEAN] :
            \A c \in LogicSubs(TheCond) :
                CalledFromEntry(asg) \cap LeafIds(c.rhs) # {} =>
                    Eval(c.lhs, asg) = (c.op = "And")

\* a returned condition a && b one run of which evaluates b and another run
\* of which skips it
C9_Witness ==
    /\ Returned /\ fun_def \in CondPrograms /\ TheCond.op = "And"
    /\ \E asg \in [LeafIds(TheCond) -> BOOLEAN] :
          LeafIds(TheCond.rhs) \subseteq CalledFromEntry(asg)
    /\ \E asg \in [LeafIds(TheCond) -> BOOLEAN] :
          /\ CalledFromEntry(asg) # {}
          /\ CalledFromEntry(asg) \cap LeafIds(TheCond.rhs) = {}

\* the positions in the emission order of the operations of argument i of
\* call c (i >= 1), and of the FunctionCall of call c itself (i = 0)
Emitted(c, i) == {m \in DOMAIN cg.log : <<c, i>> \in Range(cg.log[m].tag)}

\* C10: argument evaluation order.  Every operation emitted for argument i
\* of a call precedes every operation emitted for argument j whenever i < j,
\* the FunctionCall is emitted after the operations of all the arguments, and
\* it is emitted into the block that was current when the last argument had
\* been lowered.
C10_ArgumentOrder ==
    \A c \in DOMAIN cg.argend :
        /\ \A i \in 1..MaxArgs : \A j \in (i + 1)..MaxArgs :
              \A m \in Emitted(c, i) : \A n \in Emitted(c, j) : m < n
        /\ \A i \in 1..MaxArgs :
              \A m \in Emitted(c, i) : \A n \in Emitted(c, 0) : m < n
        /\ \A n \in Emitted(c, 0) : cg.log[n].l = cg.argend[c]

\* a returned call of two arguments, both of which emitted operations, whose
\* last argument moved the current label
C10_Witness ==
    /\ Returned
    /\ \E c \in DOMAIN cg.argend :
          /\ Emitted(c, 1) # {} /\ Emitted(c, 2) # {} /\ Emitted(c, 0) # {}
          /\ \E m \in Emitted(c, 1) : cg.log[m].l # cg.argend[c]

\* the operations the step emits
EmittedByStep == SubSeq(cg'.log, Len(cg.log) + 1, Len(cg'.log))

\* if (true) S [else ..] is next; the step emits nothing for the condition but
\* the jump into the block of S, and goes on with the statements of S
C11_IfTrue ==
    (AtStmt("Cond") /\ IsLit(Head(Top.stmts).cond, TRUE)) =>
        /\ Len(cg'.blocks) = Len(cg.blocks) + 1
        /\ Len(EmittedByStep) = 1
        /\ EmittedByStep[1].l = Top.cur
        /\ EmittedByStep[1].op = Branch1(Len(cg.blocks))
        /\ stack'[Len(stack')] = Stmts(Head(Top.stmts).t, Len(cg.blocks))

\* if (false) S without else, or while (false) S, is next
C11_FalseNoOp ==
    (\/ AtStmt("Cond") /\ IsLit(Head(Top.stmts).cond, FALSE) /\ Head(Top.stmts).f = <<>>
     \/ AtStmt("While") /\ IsLit(Head(Top.stmts).cond, FALSE)) =>
        /\ cg' = cg
        /\ stack' = Append(Below(1), Stmts(Tail(Top.stmts), Top.cur))

\* C11: constant-folded control flow.  if (true) S, with or without else,
\* emits S and no Branch2 for the condition; if (false) S without else and
\* while (false) S emit no operation, allocate no block, leave the
\* environment unchanged and leave the current label unchanged.
C11_ConstantFolded == [][C11_IfTrue /\ C11_FalseNoOp]_vars

\* the function Literals is lowered: its only blocks are the entry, the block
\* of the else of if (false), the block of S of if (true) and their two
\* continuations, and no block holds a Branch2
C11_Witness ==
    /\ Returned /\ fun_def = Literals
    /\ Len(cg.blocks) = 5
    /\ \A op \in AllOps : op.k # "Branch2"

\* a return statement is next: the step ends with the Return and the rest of
\* the statement list leaves the stack without being lowered
C12_RetDrops ==
    (AtStmt("Ret") /\ Ok(cg')) =>
        /\ EmittedByStep # <<>>
        /\ EmittedByStep[Len(EmittedByStep)].op.k = "Return"
        /\ ret' = UNREACHABLE_LABEL
        /\ stack' = Below(1)

\* a nested block or an if (true) body has returned UNREACHABLE: nothing is
\* emitted or allocated, and the enclosing list is dropped in its turn
C12_Propagates ==
    (pc = "body" /\ ret = UNREACHABLE_LABEL /\ Top.k \in {"Block", "CondTrue"}) =>
        /\ cg' = cg
        /\ ret' = UNREACHABLE_LABEL
        /\ stack' = Below(2)

\* the body of the function has returned its final label
C12_FallThrough ==
    AtReturn("generate_function_ir") =>
        IF ret = UNREACHABLE_LABEL THEN cg' = cg
        ELSE /\ Len(EmittedByStep) = 1
             /\ EmittedByStep[1].l = ret
             /\ EmittedByStep[1].op = Return(<<>>)
             /\ Len(cg'.blocks) = Len(cg.blocks)

\* the function DeadCode is lowered to three blocks holding two Branch1 and
\* the one Return of x: no call of error, no Return without a value
C12_DeadCodeDropped ==
    (Returned /\ fun_def = DeadCode) =>
        /\ Len(cg.blocks) = 3
        /\ \A op \in AllOps : op.k \in {"Branch1", "Return"}
        /\ \A op \in AllOps : op.k = "Return" => op.v # <<>>
        /\ Len(cg.log) = 3

\* C12: unreachable-code elimination.  After a return statement is lowered no
\* operation is emitted and no block allocated for any later statement of
\* the same statement list; UNREACHABLE propagates outward through enclosing
\* nested blocks and if (true) bodies, whose later statements are dropped
\* too; generate_function_ir appends the fall-through Return(None) only when
\* the final label of the body is not UNREACHABLE.
C12_UnreachableDropped ==
    /\ [][C12_RetDrops /\ C12_Propagates /\ C12_FallThrough]_vars
    /\ [](C12_DeadCodeDropped)

\* DeadCode is lowered, its return sits in the block of the if (true) body
C12_Witness ==
    /\ Returned /\ fun_def = DeadCode
    /\ ret = UNREACHABLE_LABEL
    /\ cg.blocks[3].body = <<Return(<<Register(0, TInt)>>)>>

(***************************************************************************)
(* A reference interpreter of the returned Function over integers: a        *)
(* pointer is an address, GetElementPtr adds the index to it, memory maps   *)
(* addresses to integers.  A run yields the arguments of its calls of p in  *)
(* order, the returned value, and whether it reached a Return.              *)
(***************************************************************************)
MaxLen == 3
Elems == {5, 6, 7}
Bases == {0, 16}
Arrays == UNION {[1..n -> Elems] : n \in 0..MaxLen}

\* the array arr laid out at address base, its length at base - 1
Memory(base, arr) ==
    [addr \in (base - 1)..(base + Len(arr) - 1) |->
        IF addr = base - 1 THEN Len(arr) ELSE arr[addr - base + 1]]

Val(v, regs) == IF v.k = "Register" THEN regs[v.i] ELSE v.i

Stuck(trace) == [done |-> FALSE, trace |-> trace, v |-> <<>>]

CmpHolds(op, a, b) ==
    CASE op = "LT" -> a < b
      [] op = "LE" -> a <= b
      [] op = "GT" -> a > b
      [] op = "GE" -> a >= b
      [] op = "EQ" -> a = b
      [] op = "NE" -> a # b

RECURSIVE Run(_, _, _, _, _, _)
RECURSIVE Enter(_, _, _, _, _, _)
\* the run goes on with operation j of block label
Run(mem, label, j, regs, trace, fuel) ==
    IF fuel = 0 \/ ~IsBlock(cg, label) THEN Stuck(trace)
    ELSE IF j > Len(get_block(cg, label).body) THEN Stuck(trace)
    ELSE \* one operation
         LET op == get_block(cg, label).body[j]
         IN CASE op.k = "FunctionCall" ->
                   Run(mem, label, j + 1,
                       IF op.res = <<>> THEN regs ELSE (op.res[1] :> TRUE) @@ regs,
                       IF op.f.s = "p" THEN Append(trace, Val(op.args[1], regs))
                       ELSE trace,
                       fuel - 1)
              [] op.k = "GetElementPtr" ->
                   Run(mem, label, j + 1,
                       (op.r :> Val(op.idx[1], regs) + Val(op.idx[2], regs)) @@ regs,
                       trace, fuel - 1)
              [] op.k = "Arithmetic" /\ op.op = "Add" ->
                   Run(mem, label, j + 1,
                       (op.r :> Val(op.lhs, regs) + Val(op.rhs, regs)) @@ regs,
                       trace, fuel - 1)
              [] op.k = "Compare" ->
                   Run(mem, label, j + 1,
                       (op.r :> CmpHolds(op.op, Val(op.lhs, regs), Val(op.rhs, regs)))
                           @@ regs,
                       trace, fuel - 1)
              [] op.k = "CastPtr" ->
                   Run(mem, label, j + 1, (op.r :> Val(op.v, regs)) @@ regs,
                       trace, fuel - 1)
              [] op.k = "Load" ->
                   IF Val(op.addr, regs) \in DOMAIN mem
                   THEN Run(mem, label, j + 1, (op.r :> mem[Val(op.addr, regs)]) @@ regs,
                            trace, fuel - 1)
                   ELSE Stuck(trace)
              [] op.k = "Branch1" -> Enter(mem, label, op.dst, regs, trace, fuel - 1)
              [] op.k = "Branch2" ->
                   Enter(mem, label, IF Val(op.cond, regs) THEN op.br1 ELSE op.br2,
                         regs, trace, fuel - 1)
              [] op.k = "Return" ->
                   [done |-> TRUE, trace |-> trace,
                    v |-> IF op.v = <<>> THEN <<>> ELSE <<Val(op.v[1], regs)>>]
              [] OTHER -> Stuck(trace)

\* the run jumps from block `from` to block `to`: every phi of `to` takes,
\* all at once, its incoming value for `from`
Enter(mem, from, to, regs, trace, fuel) ==
    IF ~IsBlock(cg, to) THEN Stuck(trace)
    ELSE IF \E phi \in get_block(cg, to).phi_set :
               Cardinality({i \in DOMAIN phi.inc : phi.inc[i][2] = from}) # 1
         THEN Stuck(trace)
    ELSE Run(mem, to, 1,
             [r \in {phi.r : phi \in get_block(cg, to).phi_set} |->
                 LET phi == CHOOSE q \in get_block(cg, to).phi_set : q.r = r
                     i == CHOOSE i \in DOMAIN phi.inc : phi.inc[i][2] = from
                 IN Val(phi.inc[i][1], regs)] @@ regs,
             trace, fuel)

\* the run of the returned Function from its entry, its only argument the
\* array arr at address base
RunOn(base, arr) ==
    Run(Memory(base, arr), 0, 1, (0 :> base), <<>>,
        (Len(arr) + 2) * (Len(cg.log) + 2))

RECURSIVE Sum(_)
Sum(seq) == IF seq = <<>> THEN 0 ELSE Head(seq) + Sum(Tail(seq))

\* C13: for-each desugaring.  Run by a reference interpreter on an array of
\* length N, the length stored at arr[-1], the lowered  for (T x : arr) body
\* runs the body exactly N times with x bound to arr[0], ..., arr[N-1] in
\* this order: the header phi of the iterator takes the base pointer from
\* the pre-header and it + 1 from the end of the body, and the loop is left
\* when the iterator is no longer below base + N.
C13_ForEachIterates ==
    /\ (Returned /\ fun_def = ForEachTrace) =>
           \A base \in Bases : \A arr \in Arrays :
               RunOn(base, arr) = [done |-> TRUE, trace |-> arr, v |-> <<>>]
    /\ (Returned /\ fun_def = S5) =>
           \A base \in Bases : \A arr \in Arrays :
               RunOn(base, arr) = [done |-> TRUE, trace |-> <<>>, v |-> <<Sum(arr)>>]

\* ForEachTrace is lowered and its run on an array of MaxLen elements calls
\* p on each of them
C13_Witness ==
    /\ Returned /\ fun_def = ForEachTrace
    /\ \E arr \in Arrays :
          /\ Len(arr) = MaxLen
          /\ Len(RunOn(0, arr).trace) = MaxLen

\* the header phi with result phi_value merges exactly v_pre from the
\* pre-header with v_post from the end of the body
HeaderPhi(g, cond_label, phi_value, v_pre, pre_header, v_post, body_end) ==
    /\ Cardinality({e \in get_block(g, cond_label).phi_set : e.r = phi_value.i}) = 1
    /\ \E e \in get_block(g, cond_label).phi_set :
          /\ e.r = phi_value.i
          /\ Len(e.inc) = 2
          /\ Range(e.inc) = {<<v_pre, pre_header>>, <<v_post, body_end>>}

\* C14: loop-header phi values.  For a general while or for-each loop whose
\* body reaches its end, for every name n visible at the pre-header the
\* header phi of n has exactly the two incoming pairs (v_pre, pre_header)
\* and (v_post, body_end), where v_post is the value the outer n holds at
\* the end of the body, declarations of the same name inside the body
\* ignored; also when the body ends with an if/else one branch of which
\* returns.
C14_LoopHeaderPhi ==
    [][((AtReturn("While") \/ AtReturn("ForEach")) /\ ret # UNREACHABLE_LABEL
          /\ Ok(cg')) =>
        \A i \in DOMAIN Top.stub_info :
            HeaderPhi(cg', Top.cond_label, Top.stub_info[i][3],
                      Top.stub_info[i][2], Top.cur,
                      OuterValue(cg, ret, Top.stub_info[i][1]), ret)]_vars

\* the names of g visible at pred whose values in the two branch proxies differ
PhiNames(g, pred, p1, p2) ==
    {n \in get_all_visible_local_variables(g, pred) :
        get_variable(g, p1, n) # get_variable(g, p2, n)}

\* the rule, for the join of pred's two branches that end in br1 and br2
\* with the proxies p1 and p2, from the builder g to the builder h
IfJoinRule(g, h, pred, join, br1, p1, br2, p2) ==
    /\ \A n \in get_all_visible_local_variables(g, pred) \ PhiNames(g, pred, p1, p2) :
          IF get_variable(g, pred, n) = get_variable(g, p1, n)
          THEN \A fr \in DOMAIN g.frames :
                  n \in DOMAIN g.frames[fr].locals =>
                      h.frames[fr].locals[n] = g.frames[fr].locals[n]
          ELSE get_variable(h, join, n) = get_variable(g, p1, n)
    /\ \A n \in PhiNames(g, pred, p1, p2) :
          \E e \in get_block(h, join).phi_set :
              /\ e.r \in g.next_reg_num..(h.next_reg_num - 1)
              /\ e.t = get_type(get_variable(g, p1, n))
              /\ e.inc = <<<<get_variable(g, p1, n), br1>>, <<get_variable(g, p2, n), br2>>>>
              /\ get_variable(h, join, n) = Register(e.r, e.t)
    /\ \A m, n \in PhiNames(g, pred, p1, p2) :
          get_variable(h, join, m) = get_variable(h, join, n) => m = n
    /\ Cardinality(get_block(h, join).phi_set) = Cardinality(PhiNames(g, pred, p1, p2))
    /\ h.next_reg_num = g.next_reg_num + Cardinality(PhiNames(g, pred, p1, p2))

\* C15: the if-join rule of calculate_phi_set_for_if.  For every name visible
\* before the if, with v0 its value before the if, v1 its value in the true
\* proxy and v2 its value in the false proxy (or in the frame of the false
\* block of an if without else): if v0 = v1 = v2 nothing changes; if
\* v1 = v2 # v0 no phi is inserted and the name is rebound to v1; otherwise
\* exactly one phi (r, type(v1), [(v1, true_end), (v2, false_end)]) with a
\* fresh r is inserted into the join and the name is rebound to
\* Register(r, type(v1)); no phi is inserted for any other name.
C15_IfJoinRule ==
    [][/\ (AtReturn("CondIf") /\ ret # UNREACHABLE_LABEL /\ Ok(cg')) =>
             IfJoinRule(cg, cg', Top.cur, Top.cont_label, ret, Top.true_proxy_label,
                        Top.false_label, Top.false_label)
       /\ (AtReturn("CondElseFalse") /\ Top.end_true_label # UNREACHABLE_LABEL
            /\ ret # UNREACHABLE_LABEL /\ Ok(cg')) =>
             IfJoinRule(cg, cg', Top.cur, Len(cg.blocks), Top.end_true_label,
                        Top.true_proxy_label, ret, Top.false_proxy_label)]_vars

\* IfJoinCases is lowered: y is left alone, x is rebound to the literal 1
\* without a phi, and the one phi of the join merges the two values of z
C15_Witness ==
    /\ Returned /\ fun_def = IfJoinCases
    /\ cg.blocks[4].phi_set =
          {PhiEntry(4, TInt, <<<<LitInt(2), 1>>, <<LitInt(3), 2>>>>)}
    /\ get_variable(cg, 3, "x") = LitInt(1)
    /\ get_variable(cg, 3, "y") = Register(1, TInt)
    /\ get_variable(cg, 3, "z") = Register(4, TInt)

RECURSIVE Chain(_, _)
\* the frames on the parent chain of frame, frame itself included
Chain(g, frame) ==
    IF frame = NoLabel \/ frame \notin DOMAIN g.frames THEN {}
    ELSE {frame} \cup Chain(g, g.frames[frame].parent)

\* a read of every name visible at frame yields the same in g and h
SameLookups(g, h, frame) ==
    \A n \in get_all_visible_local_variables(g, frame) :
        get_variable(h, frame, n) = get_variable(g, frame, n)

\* the positions of the stack where a general if sits whose branch the step
\* lowers: the call site is there before and after the step
BranchSites ==
    {i \in DOMAIN stack \cap DOMAIN stack' :
        /\ stack[i].k \in {"CondIf", "CondElseTrue", "CondElseFalse"}
        /\ stack'[i].k \in {"CondIf", "CondElseTrue", "CondElseFalse"}}

\* what a step inside a branch of the if at call site `site` leaves alone
Isolated(site) ==
    /\ \A fr \in Chain(cg, site.cur) : cg'.frames[fr] = cg.frames[fr]
    /\ SameLookups(cg, cg', site.cur)
    /\ CASE site.k = "CondIf" -> SameLookups(cg, cg', site.false_label)
         [] site.k = "CondElseTrue" ->
               /\ SameLookups(cg, cg', site.false_label)
               /\ cg'.frames[site.false_proxy_label] = cg.frames[site.false_proxy_label]
         [] site.k = "CondElseFalse" ->
               /\ SameLookups(cg, cg', site.true_proxy_label)
               /\ cg'.frames[site.true_proxy_label] = cg.frames[site.true_proxy_label]

\* C16: branch isolation.  While one branch of an if is lowered, an
\* assignment to an outer name n in it does not change what a read of n
\* yields from the frame of the other branch or from the frame before the
\* if, and vice versa; the frames on the chain of the frame before the if
\* are modified only by the join step.
C16_BranchIsolation == [][Ok(cg') => \A i \in BranchSites : Isolated(stack[i])]_vars

\* the true branch x = x + 1 of S2 is lowered and the else branch is not yet
\* begun: x read in the true branch is the sum, x read before the if and in
\* the false branch is still the parameter
C16_Witness ==
    /\ pc = "body" /\ fun_def = S2 /\ Len(stack) > 1
    /\ Below(1)[Len(stack) - 1].k = "CondElseTrue" /\ Top.stmts = <<>>
    /\ get_variable(cg, Top.cur, "x") = Register(2, TInt)
    /\ get_variable(cg, Below(1)[Len(stack) - 1].cur, "x") = Register(0, TInt)
    /\ get_variable(cg, Below(1)[Len(stack) - 1].false_label, "x") = Register(0, TInt)

\* the proxy frames create_proxy_env has made for the constructs whose
\* lowering is under way
SnapshotProxies ==
    UNION {CASE stack[i].k \in {"CondIf"} -> {stack[i].true_proxy_label}
             [] stack[i].k \in {"CondElseTrue", "CondElseFalse"} ->
                   {stack[i].true_proxy_label, stack[i].false_proxy_label}
             [] stack[i].k \in {"While", "ForEach"} -> {stack[i].proxy_label}
             [] OTHER -> {} : i \in DOMAIN stack}

\* the next statement is n = e for a variable n, and the nearest frame that
\* holds n, seen from the current block, is a proxy made by create_proxy_env
UpdateBelowProxy ==
    /\ AtStmt("Assign") /\ Head(Top.stmts).lhs.k = "LitVar"
    /\ FrameHolding(cg.frames, Top.cur, Head(Top.stmts).lhs.name) \in SnapshotProxies
    /\ Ok(cg')

\* the value n = e binds n to
Assigned == process_expression(cg, Head(Top.stmts).rhs, Top.cur).value

\* the proxy the update of n arrives at
ProxyHit == FrameHolding(cg.frames, Top.cur, Head(Top.stmts).lhs.name)

OneArmJoin(g, h, pred, cont, survivor) ==
    /\ Len(h.blocks) = Len(g.blocks) + 1
    /\ get_block(h, cont).predecessors = <<survivor>>
    /\ get_block(h, cont).phi_set = {}
    /\ \A n \in get_all_visible_local_variables(g, pred) :
          get_variable(h, cont, n) = OuterValue(g, survivor, n)

\* C18: if/else with exactly one terminating branch.  The continuation has
\* exactly one predecessor, the end block of the surviving branch, and no
\* phi-entry; every name visible before the if resolves from the
\* continuation to its value at the end of the surviving branch, so that
\* the assignments of the terminated branch are not visible; if both
\* branches terminate, no continuation block is allocated and UNREACHABLE
\* is returned.
C18_OneArmSurvives ==
    [][(AtReturn("CondElseFalse") /\ Ok(cg')) =>
         CASE Top.end_true_label = UNREACHABLE_LABEL /\ ret = UNREACHABLE_LABEL ->
                 cg' = cg /\ ret' = UNREACHABLE_LABEL
           [] Top.end_true_label = UNREACHABLE_LABEL /\ ret # UNREACHABLE_LABEL ->
                 OneArmJoin(cg, cg', Top.cur, Len(cg.blocks), ret)
           [] Top.end_true_label # UNREACHABLE_LABEL /\ ret = UNREACHABLE_LABEL ->
                 OneArmJoin(cg, cg', Top.cur, Len(cg.blocks), Top.end_true_label)
           [] OTHER -> TRUE]_vars

\* a read of every stubbed name from frame yields its stub
ReadsStub(g, site, frame) ==
    \A i \in DOMAIN site.stub_info :
        get_variable(g, frame, site.stub_info[i][1]) = site.stub_info[i][3]

\* the same from the frame of the body, where the iterator a for-each
\* declares hides an outer variable of its name
BodyReadsStub(g, site, frame, hidden) ==
    \A i \in DOMAIN site.stub_info :
        site.stub_info[i][1] \notin hidden =>
            get_variable(g, frame, site.stub_info[i][1]) = site.stub_info[i][3]

\* the step stubs the header of a general while or of a for-each: site is
\* the call site it leaves on the stack
Stubbed(site) ==
    /\ {site.stub_info[i][1] : i \in DOMAIN site.stub_info}
          = get_all_visible_local_variables(cg, site.cur)
    /\ Len(site.stub_info) = Cardinality(get_all_visible_local_variables(cg, site.cur))
    /\ \A i \in DOMAIN site.stub_info :
          /\ site.stub_info[i][2] = get_variable(cg, site.cur, site.stub_info[i][1])
          /\ site.stub_info[i][3].k = "Register"
          /\ site.stub_info[i][3].t = <<get_type(site.stub_info[i][2])>>
          /\ site.stub_info[i][3].i \in cg.next_reg_num..(cg'.next_reg_num - 1)
          /\ \A j \in DOMAIN site.stub_info :
                site.stub_info[i][3].i = site.stub_info[j][3].i => i = j
    /\ ReadsStub(cg', site, site.cond_label)
    /\ BodyReadsStub(cg', site, site.cond_label + 1,
                     IF site.k = "ForEach" THEN {Head(Top.stmts).name} ELSE {})
    /\ ReadsStub(cg', site, site.cont_label)

\* the step finalises the header of the loop at call site `site`
Finalised(site) ==
    /\ \A i \in DOMAIN site.stub_info :
          /\ Cardinality({e \in get_block(cg', site.cond_label).phi_set :
                             e.r = site.stub_info[i][3].i}) = 1
          /\ \A e \in get_block(cg', site.cond_label).phi_set :
                e.r = site.stub_info[i][3].i => e.t = get_type(site.stub_info[i][2])
    /\ Cardinality(get_block(cg', site.cond_label).phi_set)
          = Len(site.stub_info) + (IF site.k = "ForEach" THEN 1 ELSE 0)
    /\ ReadsStub(cg', site, site.cond_label)
    /\ ReadsStub(cg', site, site.cont_label)

\* C19: loop phi stubbing.  The header of a loop gets exactly one phi-entry
\* for every name visible at the pre-header, each with a distinct fresh id
\* and the type of the pre-header value; from the stubbing on, a read of the
\* name from the condition frame, from the body frame and, after the loop,
\* from the continuation frame resolves to Register(r_n, typeof(v_pre)),
\* unless the body has rebound it for its own path.
C19_LoopStubs ==
    [][Ok(cg') =>
        /\ (AtStmt("ForEach") \/ (AtStmt("While") /\ Head(Top.stmts).cond.k # "LitBool"))
              => Stubbed(stack'[Len(stack') - 1])
        /\ \A i \in DOMAIN stack \cap DOMAIN stack' :
              (stack[i].k \in {"While", "ForEach"} /\ stack'[i] = stack[i])
                 => ReadsStub(cg', stack[i], stack[i].cond_label)
        /\ (AtReturn("While") \/ AtReturn("ForEach")) => Finalised(Top)]_vars

\* S3 is lowered: the header of its loop, block 1, holds the three phis of
\* n, s and i, and s read after the loop is its phi
C19_Witness ==
    /\ Returned /\ fun_def = S3
    /\ {e.r : e \in cg.blocks[2].phi_set} = {1, 2, 3}
    /\ \A e \in cg.blocks[2].phi_set : e.t = TInt /\ Len(e.inc) = 2
    /\ get_variable(cg, 3, "s").i \in {1, 2, 3}

\* every operation the step emits after the first `done` entries of the log
\* goes to block label
EmittedInto(done, label) ==
    \A k \in (done + 1)..Len(cg'.log) : cg'.log[k].l = label

\* return a == b; or return a != b; with operands that are strings or
\* pointers is next: the call or Compare, and the Return after it, go to the
\* block the lowering of the right operand returned
C20_CompareThreaded ==
    (/\ AtStmt("Ret") /\ Head(Top.stmts).e # <<>>
     /\ Head(Top.stmts).e[1].k = "BinaryOp" /\ Head(Top.stmts).e[1].op \in {"EQ", "NE"}
     /\ Ok(cg')) =>
        \E a \in {process_expression(cg, Head(Top.stmts).e[1].lhs, Top.cur)} :
        \E b \in {process_expression(a.cg, Head(Top.stmts).e[1].rhs, a.label)} :
            IsPtr(get_type(a.value)) => EmittedInto(Len(b.cg.log), b.label)

\* obj.m(args); with arguments that are literals or variables is next: the
\* operations of the call go to the block the lowering of obj returned, and
\* the statement list goes on there
C20_MethodThreaded ==
    (/\ AtStmt("Expr") /\ Head(Top.stmts).e.k = "ObjMethodCall"
     /\ \A i \in DOMAIN Head(Top.stmts).e.args :
           Head(Top.stmts).e.args[i].k \in {"LitBool", "LitInt", "LitVar"}
     /\ Ok(cg')) =>
        \E o \in {process_expression(cg, Head(Top.stmts).e.obj, Top.cur)} :
            /\ EmittedInto(Len(o.cg.log), o.label)
            /\ stack'[Len(stack')].cur = o.label

\* C20: label threading.  Every expression lowering appends its operations
\* to the block that is current after its sub-expressions and returns that
\* block; in particular for obj.m(args) the operations of the arguments and
\* the FunctionCall go to the block returned by lowering obj, and for == and
\* != on strings or pointers the FunctionCall or Compare goes to the block
\* returned by lowering the right operand.
C20_LabelThreading == [][C20_CompareThreaded /\ C20_MethodThreaded]_vars

\* f is the nearest frame on the parent chain from frame, frame included,
\* whose own map holds name
Nearest(g, frame, name, f) ==
    /\ f \in Chain(g, frame)
    /\ name \in DOMAIN g.frames[f].locals
    /\ \A f2 \in Chain(g, frame) :
          name \in DOMAIN g.frames[f2].locals => f2 \in Chain(g, f)

\* from g to h exactly the binding of name in frame f has become value
OnlyRebound(g, h, f, name, value) ==
    /\ DOMAIN h.frames = DOMAIN g.frames
    /\ \A fr \in DOMAIN g.frames :
          /\ h.frames[fr].parent = g.frames[fr].parent
          /\ DOMAIN h.frames[fr].locals = DOMAIN g.frames[fr].locals
          /\ \A n \in DOMAIN g.frames[fr].locals :
                h.frames[fr].locals[n] =
                    IF fr = f /\ n = name THEN value ELSE g.frames[fr].locals[n]

\* update(frame, name, value) applied to the builder g
UpdateRule(g, frame, name, value) ==
    \E h \in {update_existing_local_variable(g, frame, name, value)} :
        IF \E f \in Chain(g, frame) : name \in DOMAIN g.frames[f].locals
        THEN /\ Ok(h)
             /\ \E f \in DOMAIN g.frames :
                   Nearest(g, frame, name, f) /\ OnlyRebound(g, h, f, name, value)
        ELSE ~Ok(h) /\ h.frames = g.frames

\* the names bound anywhere in the builder, and one bound nowhere
NamesOf(g) == UNION {DOMAIN g.frames[fr].locals : fr \in DOMAIN g.frames} \cup {"nowhere"}

\* n = e for a variable n is next, with e lowered to r: the step is the
\* update of n to the value of e from the block e ends in
AssignUpdates ==
    (AtStmt("Assign") /\ Head(Top.stmts).lhs.k = "LitVar" /\ Ok(cg')) =>
        \E r \in {process_expression(cg, Head(Top.stmts).rhs, Top.cur)} :
        \E f \in DOMAIN r.cg.frames :
            /\ Nearest(r.cg, r.label, Head(Top.stmts).lhs.name, f)
            /\ OnlyRebound(r.cg, cg', f, Head(Top.stmts).lhs.name, r.value)

\* C21: update(frame, name, value) rebinds name in exactly one frame, the
\* nearest frame on the parent chain from frame (inclusive) whose own map
\* contains name, and leaves every other binding of every frame and every
\* parent link unchanged; if no frame on the chain contains name it aborts
\* without having changed any binding.
C21_UpdateOneFrame ==
    /\ [][AssignUpdates]_vars
    /\ [](Ok(cg) => \A frame \in DOMAIN cg.frames : \A name \in NamesOf(cg) :
                        UpdateRule(cg, frame, name, LitInt(99)))

\* z = 2 in the true branch of IfJoinCases has acted: the true proxy binds z
\* to 2, the false proxy and the frame of the parameters bind it to the
\* parameter
C21_Witness ==
    /\ pc = "body" /\ fun_def = IfJoinCases /\ Len(stack) > 1
    /\ Below(1)[Len(stack) - 1].k = "CondElseTrue" /\ Top.stmts = <<>>
    /\ cg.frames[Below(1)[Len(stack) - 1].true_proxy_label].locals["z"] = LitInt(2)
    /\ cg.frames[Below(1)[Len(stack) - 1].false_proxy_label].locals["z"]
          = Register(2, TInt)
    /\ cg.frames[ARGS_LABEL].locals["z"] = Register(2, TInt)

\* insert_empty_proxy_frame(frame) applied to the builder g, the proxy
\* getting the label proxy
ProxyTransparent(g, frame, proxy) ==
    \E h \in {insert_empty_proxy_frame(g, frame)} :
        /\ Ok(h)
        /\ DOMAIN h.frames = DOMAIN g.frames \cup {proxy}
        /\ proxy \notin DOMAIN g.frames
        /\ h.frames[proxy].parent = g.frames[frame].parent
        /\ h.frames[frame].parent = proxy
        /\ \A fr \in DOMAIN g.frames : \A n \in NamesOf(g) :
              get_variable(h, fr, n) = get_variable(g, fr, n)
        /\ \A n \in NamesOf(g) :
              /\ FrameHolding(h.frames, frame, n) = FrameHolding(g.frames, frame, n)
              /\ FrameHolding(g.frames, frame, n) # NoLabel =>
                    update_existing_local_variable(h, frame, n, LitInt(99))
                        .frames[FrameHolding(g.frames, frame, n)].locals[n] = LitInt(99)
              /\ FrameHolding(g.frames, frame, n) = NoLabel =>
                    ~Ok(update_existing_local_variable(h, frame, n, LitInt(99)))

\* C22: insert_empty_proxy_frame(frame) is transparent.  Immediately after
\* it a read of every name from every existing frame yields the same value
\* as before, the parent of the new proxy is the former parent of frame and
\* the parent of frame is the proxy, and an update(frame, n, v) of a name n
\* not declared in the proxy rebinds the same outer frame it would have
\* rebound before the insertion.
C22_ProxyTransparent ==
    Ok(cg) => \A frame \in DOMAIN cg.frames :
                 cg.frames[frame].parent # NoLabel =>
                     ProxyTransparent(cg, frame, cg.next_proxy_frame)

\* the body of the for-each of S5 is being lowered: the frame of the iterator
\* sits between the body frame and the proxy of the body, and s read from
\* the body is the stub its header binds it to
C22_Witness ==
    /\ pc = "body" /\ fun_def = S5 /\ Len(stack) > 1
    /\ Below(1)[Len(stack) - 1].k = "ForEach"
    /\ DOMAIN cg.frames[cg.frames[Top.cur].parent].locals = {"x"}
    /\ cg.frames[cg.frames[Top.cur].parent].parent = Below(1)[Len(stack) - 1].proxy_label
    /\ get_variable(cg, Top.cur, "s")
          = get_variable(cg, Below(1)[Len(stack) - 1].cond_label, "s")

\* the step has lowered a value-context && or || entered with Len(cg.blocks)
\* blocks: T and F are the first two blocks it allocated, join is the block
\* it returned and value is its value
LogicValueRule(T, F, join, value) ==
    /\ join > F /\ join < Len(cg'.blocks)
    /\ get_block(cg', T).body = <<Branch1(join)>>
    /\ get_block(cg', F).body = <<Branch1(join)>>
    /\ Len(get_block(cg', join).predecessors) = 2
    /\ Range(get_block(cg', join).predecessors) = {T, F}
    /\ value.k = "Register" /\ value.i \in cg.next_reg_num..(cg'.next_reg_num - 1)
    /\ get_block(cg', join).phi_set =
          {PhiEntry(value.i, TBool, <<<<LitBool(TRUE), T>>, <<LitBool(FALSE), F>>>>)}
    /\ value = Register(value.i, TBool)

\* expr is a && b or a || b
IsLogicExpr(expr) == expr.k = "BinaryOp" /\ IsLogic(expr.op)

\* C23: value-context a && b and a || b.  The lowering allocates blocks T
\* and F that each contain only Branch1(join), the join block has exactly
\* the predecessors T and F, and it holds exactly one new phi-entry of type
\* Bool with the incoming pairs (LitBool(true), T) and (LitBool(false), F);
\* the value of the expression is the register of that phi and the current
\* label returned is join.
C23_LogicValue ==
    [][/\ (AtStmt("Ret") /\ Head(Top.stmts).e # <<>> /\ IsLogicExpr(Head(Top.stmts).e[1])
            /\ Ok(cg')) =>
             /\ cg'.log[Len(cg'.log)].op.k = "Return"
             /\ cg'.log[Len(cg'.log)].op.v # <<>>
             /\ LogicValueRule(Len(cg.blocks), Len(cg.blocks) + 1,
                               cg'.log[Len(cg'.log)].l, cg'.log[Len(cg'.log)].op.v[1])
       /\ (AtStmt("Expr") /\ IsLogicExpr(Head(Top.stmts).e) /\ Ok(cg')) =>
             \E r \in {process_expression(cg, Head(Top.stmts).e, Top.cur)} :
                 /\ cg' = r.cg
                 /\ stack'[Len(stack')].cur = r.label
                 /\ LogicValueRule(Len(cg.blocks), Len(cg.blocks) + 1, r.label, r.value)]_vars

\* LogicValue is lowered: two joins, each with one phi of true and false
C23_Witness ==
    /\ Returned /\ fun_def = LogicValue
    /\ Cardinality({b \in DOMAIN cg.blocks :
                       /\ Cardinality(cg.blocks[b].phi_set) = 1
                       /\ \A e \in cg.blocks[b].phi_set :
                             {e.inc[1][1], e.inc[2][1]} = {LitBool(TRUE), LitBool(FALSE)}}) = 2

\* what a read of name yields from the condition frame and from the
\* continuation frame of the for-each at call site `site`: the header stub
\* of an outer variable of this name, or nothing
OuterOnly(g, site, name) ==
    /\ \A frame \in {site.cond_label, site.cont_label} :
          \/ /\ get_variable(g, frame, name) = NoValue
             /\ \A i \in DOMAIN site.stub_info : site.stub_info[i][1] # name
          \/ \E i \in DOMAIN site.stub_info :
                /\ site.stub_info[i][1] = name
                /\ get_variable(g, frame, name) = site.stub_info[i][3]

\* the step has bound the loop variable of the for-each at call site `site`
IteratorBound(site) ==
    /\ get_variable(cg', site.cond_label + 1, site.iter_name).k = "Register"
    /\ \E j \in DOMAIN get_block(cg', site.cond_label + 1).body :
          get_block(cg', site.cond_label + 1).body[j]
            = Load(get_variable(cg', site.cond_label + 1, site.iter_name).i,
                   Register(site.cur_it_reg, site.arr_type))
    /\ site.iter_name \notin get_all_visible_local_variables(cg, site.cur) =>
          /\ site.iter_name \notin get_all_visible_local_variables(cg', site.cond_label)
          /\ site.iter_name \notin get_all_visible_local_variables(cg', site.cont_label)
    /\ OuterOnly(cg', site, site.iter_name)

\* the step finalises the header of the for-each at call site `site`: the
\* loop variable has no phi of its own, and the phi of an outer variable of
\* its name takes the stub itself from the end of the body
IteratorNoPhi(site) ==
    /\ Cardinality(get_block(cg', site.cond_label).phi_set) = Len(site.stub_info) + 1
    /\ \A i \in DOMAIN site.stub_info :
          (site.stub_info[i][1] = site.iter_name /\ ret # UNREACHABLE_LABEL) =>
              HeaderPhi(cg', site.cond_label, site.stub_info[i][3],
                        site.stub_info[i][2], site.cur, site.stub_info[i][3], ret)
    /\ OuterOnly(cg', site, site.iter_name)

\* C24: for-each loop variable scoping.  The loop variable x is visible
\* from the body frame only: it is not visible from the condition frame or
\* from the continuation frame, it receives no header phi-entry, and
\* declaring or assigning x in the body never changes the binding of an
\* outer variable of the same name as seen from the condition, from the
\* continuation or from the header phi of that outer variable.
C24_IteratorScoped ==
    [][Ok(cg') =>
        /\ AtStmt("ForEach") => IteratorBound(stack'[Len(stack') - 1])
        /\ \A i \in DOMAIN stack \cap DOMAIN stack' :
              (stack[i].k = "ForEach" /\ stack'[i] = stack[i])
                 => OuterOnly(cg', stack[i], stack[i].iter_name)
        /\ AtReturn("ForEach") => IteratorNoPhi(Top)]_vars

\* ForEachShadow is lowered: the x returned after the loop is the header
\* stub of the parameter x, whose phi takes the stub itself from the end of
\* the body
C24_Witness ==
    /\ Returned /\ fun_def = ForEachShadow
    /\ \E e \in cg.blocks[2].phi_set :
          /\ e.inc[1] = <<Register(0, TInt), 0>>
          /\ e.inc[2][1] = Register(e.r, TInt)
          /\ \E b \in DOMAIN cg.blocks :
                cg.blocks[b].body = <<Return(<<Register(e.r, TInt)>>)>>

\* no two contents of the table share a number
Interned(table) ==
    \A c, d \in DOMAIN table : table[c] = table[d] => c = d

\* the step lowers the statement `"chars";` from builder g into builder h
InternRule(g, h, chars, cur_label) ==
    IF chars = <<>>
    THEN /\ h = g
         /\ \A table \in {<<>>, (<<"a">> :> 0)} :
               LowerLitStr([g EXCEPT !.global_strings = table], ELitStr(<<>>), cur_label)
                 = R([g EXCEPT !.global_strings = table], cur_label,
                     LitNullPtr(<<Ptr(TChar)>>))
    ELSE /\ Len(h.log) = Len(g.log) + 1
         /\ h.log[Len(h.log)].op.k = "CastGlobalString"
         /\ IF chars \in DOMAIN g.global_strings
            THEN /\ h.global_strings = g.global_strings
                 /\ h.log[Len(h.log)].op.v
                      = GlobalRegister(format_global_string(g.global_strings[chars]),
                                       Ptr(TChar))
            ELSE /\ DOMAIN h.global_strings = DOMAIN g.global_strings \cup {chars}
                 /\ \A c \in DOMAIN g.global_strings :
                       /\ h.global_strings[c] = g.global_strings[c]
                       /\ h.global_strings[c] # h.global_strings[chars]
                 /\ h.log[Len(h.log)].op.v
                      = GlobalRegister(format_global_string(h.global_strings[chars]),
                                       Ptr(TChar))

ProxyLabels(g) == (g.next_proxy_frame + 1)..FIRST_PROXY_LABEL

BlockLabels(g) == 0..(Len(g.blocks) - 1)

LabelsDisjoint(g) ==
    /\ g.aborted # "allocate_new_frame"
    /\ \A i \in DOMAIN g.blocks : g.blocks[i].label = i - 1
    /\ DOMAIN g.frames = {ARGS_LABEL} \cup BlockLabels(g) \cup ProxyLabels(g)
    /\ ProxyLabels(g) \cap BlockLabels(g) = {}
    /\ ARGS_LABEL \notin ProxyLabels(g) \cup BlockLabels(g)
    /\ UNREACHABLE_LABEL \notin DOMAIN g.frames
    /\ \A p \in ProxyLabels(g) : ~IsBlock(g, p)

\* C27: frame labels never collide.  Every label handed out for a proxy
\* frame differs from every block label, from every earlier proxy label,
\* from the label of the arguments frame and from the UNREACHABLE sentinel;
\* no proxy label is an index into the blocks; the block labels are the
\* dense indices 0, 1, 2, ... in allocation order.
C27_LabelsNeverCollide ==
    /\ [](LabelsDisjoint(cg))
    /\ [][/\ DOMAIN cg.frames \subseteq DOMAIN cg'.frames
          /\ (ProxyLabels(cg') \ ProxyLabels(cg)) \cap DOMAIN cg.frames = {}
          /\ (BlockLabels(cg') \ BlockLabels(cg)) \cap DOMAIN cg.frames = {}
          /\ \A i \in DOMAIN cg.blocks : cg'.blocks[i].label = cg.blocks[i].label]_vars

\* a build that has handed out several proxy labels and several block labels
C27_Witness ==
    /\ Returned
    /\ Cardinality(ProxyLabels(cg)) >= 3
    /\ Len(cg.blocks) >= 4
    /\ ProxyLabels(cg) \subseteq DOMAIN cg.frames

\* name is bound, at the end `from` of the nested block entered from frame
\* outer, by a declaration made inside the block
DeclaredInside(g, outer, from, name) ==
    /\ <<FrameHolding(g.frames, from, name), name>> \in g.decl
    /\ FrameHolding(g.frames, from, name) \notin Chain(g, outer)

\* the step closes the nested block entered from site.cur, which ends in ret
BlockScoping(site, cont) ==
    /\ get_all_visible_local_variables(cg', cont)
         = get_all_visible_local_variables(cg, site.cur)
    /\ \A name \in NamesOf(cg) :
          DeclaredInside(cg, site.cur, ret, name) =>
              /\ FrameHolding(cg'.frames, cont, name) # FrameHolding(cg.frames, ret, name)
              /\ get_variable(cg', cont, name) = get_variable(cg, site.cur, name)
    /\ \A name \in get_all_visible_local_variables(cg, site.cur) :
          ~DeclaredInside(cg, site.cur, ret, name) =>
              get_variable(cg', cont, name) = get_variable(cg, ret, name)
    /\ cg'.log[Len(cg'.log)] = [l |-> ret, op |-> Branch1(cont), tag |-> <<>>]
    /\ get_block(cg', ret).body[Len(get_block(cg', ret).body)] = Branch1(cont)
    /\ get_block(cg', cont).predecessors = <<ret>>

\* C25: nested block scoping.  After a nested `{ ... }` that does not
\* terminate is lowered, the names declared inside are not visible from the
\* continuation (a lookup resolves to the outer binding, if any), the
\* assignments made inside to outer names are visible from the continuation,
\* the end of the nested block branches to the continuation with Branch1 and
\* the continuation has exactly that one predecessor.
C25_BlockScoping ==
    [][(AtReturn("Block") /\ ret # UNREACHABLE_LABEL /\ Ok(cg'))
          => BlockScoping(Top, Len(cg.blocks))]_vars

\* the incoming pairs of phi-entry e are one per predecessor of block b
PhiMatchesPreds(g, b, e) ==
    /\ \A i, j \in DOMAIN e.inc : e.inc[i][2] = e.inc[j][2] => i = j
    /\ {e.inc[i][2] : i \in DOMAIN e.inc} = Range(get_block(g, b).predecessors)
    /\ Len(e.inc) = Len(get_block(g, b).predecessors)

\* C28: phi-edges match the CFG.  For every phi-entry of a block B the labels
\* of its incoming pairs are pairwise distinct and are exactly the
\* predecessors of B, one per predecessor; this holds at the joins of if and
\* if/else, at the joins of boolean values and at the headers of while and
\* for-each, including a header whose body terminates, which has the single
\* incoming pair from the pre-header.
C28_PhiMatchesCfg ==
    \A b \in Labels : \A e \in get_block(cg, b).phi_set : PhiMatchesPreds(cg, b, e)

\* a returned Function with a phi at an if join, a phi at the header of a
\* loop whose body reaches its end and a phi at the header of a loop whose
\* body terminates
C28_Witness ==
    /\ Returned /\ fun_def = PhiKinds
    /\ \E b \in Labels : \E e \in get_block(cg, b).phi_set :
          /\ Len(e.inc) = 2
          /\ e.inc[2][2] > b
    /\ \E b \in Labels : \E e \in get_block(cg, b).phi_set :
          /\ Len(e.inc) = 2
          /\ e.inc[1][2] < b /\ e.inc[2][2] < b
    /\ \E b \in Labels : \E e \in get_block(cg, b).phi_set : Len(e.inc) = 1

\* the ids of the registers read anywhere in the Function
UsedIds == {v.i : v \in {u \in AllUses : u.k = "Register"}}

DefinedIds == {d[1] : d \in Definitions}

\* C29: no use of an undefined id.  In the returned Function every
\* Register(id, _) used as an operand, as a Return value, as the condition of
\* a Branch2 or as an incoming value of a phi has an id that is the id of a
\* parameter, the result id of an operation or the result id of a phi-entry;
\* the ids allocated for the results of Void calls and for the phi stubs of
\* loops are never used without such a definition.
C29_UsesAreDefined ==
    Returned => UsedIds \subseteq DefinedIds

\* VoidResult is lowered: the calls of the Void function error have no
\* result, the value of the last one is dropped by the Return, and the stubs
\* of the headers are read in the loops and defined by their phis
C29_Witness ==
    /\ Returned /\ fun_def = VoidResult
    /\ \E b \in DOMAIN cg.blocks : Return(<<>>) \in Range(cg.blocks[b].body)
    /\ \E op \in AllOps : op.k = "FunctionCall" /\ op.res = <<>>
    /\ \E d \in Definitions : d[2] = "phi" /\ d[1] \in UsedIds
    /\ \E d \in Definitions : d[2] = "param" /\ d[1] \in UsedIds
    /\ \E d \in Definitions : d[2] = "op" /\ d[1] \in UsedIds
    /\ DefinedIds # 0..(cg.next_reg_num - 1)

\* The renaming of SSA ids between two Functions with the arguments A1, A2
\* and the blocks B1, B2 is fixed for the parameters and for the results of
\* the operations: a parameter goes to the parameter at its place, the result
\* of an operation to the result of the operation at its place.
Placed(A1, B1, A2, B2) ==
    {<<A1[i][1], A2[i][1]>> : i \in DOMAIN A1 \cap DOMAIN A2}
    \cup UNION {{<<ResultOf(B1[b].body[j])[1], ResultOf(B2[b].body[j])[1]>> :
                    j \in {k \in DOMAIN B1[b].body \cap DOMAIN B2[b].body :
                             /\ ResultOf(B1[b].body[k]) # <<>>
                             /\ ResultOf(B2[b].body[k]) # <<>>}} :
                 b \in DOMAIN B1 \cap DOMAIN B2}

\* the phi-entries <<block, entry>> of the blocks B
PhisOf(B) == UNION {{<<b, e>> : e \in B[b].phi_set} : b \in DOMAIN B}

\* the result of a phi-entry can go to the result of a phi-entry of the same
\* block with the same type and the same incoming labels
Alike(p, q) ==
    /\ p[1] = q[1]
    /\ p[2].t = q[2].t
    /\ [i \in DOMAIN p[2].inc |-> p[2].inc[i][2]] = [i \in DOMAIN q[2].inc |-> q[2].inc[i][2]]

RECURSIVE Matchings(_, _, _)
\* every way to send the phi results of todo to distinct phi results of to,
\* each to one alike, added to rho
Matchings(todo, to, rho) ==
    IF todo = {} THEN {rho}
    ELSE LET p == CHOOSE p \in todo : TRUE
         IN UNION {Matchings(todo \ {p}, to \ {q}, rho \cup {<<p[2].r, q[2].r>>}) :
                     q \in {c \in to : Alike(p, c)}}

IsBijection(rho) == \A p, q \in rho : p[1] = q[1] <=> p[2] = q[2]

Image(rho, id) ==
    IF \E p \in rho : p[1] = id THEN (CHOOSE p \in rho : p[1] = id)[2] ELSE -1

RenameValue(rho, v) ==
    IF v.k = "Register" THEN [v EXCEPT !.i = Image(rho, v.i)] ELSE v

RenameValues(rho, vs) == [i \in DOMAIN vs |-> RenameValue(rho, vs[i])]

RenameOp(rho, op) ==
    CASE op.k = "Return" -> [op EXCEPT !.v = RenameValues(rho, @)]
      [] op.k = "FunctionCall" ->
            [op EXCEPT !.res = [i \in DOMAIN @ |-> Image(rho, @[i])],
                       !.f = RenameValue(rho, @), !.args = RenameValues(rho, @)]
      [] op.k \in {"Arithmetic", "Compare"} ->
            [op EXCEPT !.r = Image(rho, @), !.lhs = RenameValue(rho, @),
                       !.rhs = RenameValue(rho, @)]
      [] op.k = "GetElementPtr" ->
            [op EXCEPT !.r = Image(rho, @), !.idx = RenameValues(rho, @)]
      [] op.k \in {"CastGlobalString", "CastPtr", "CastPtrToInt"} ->
            [op EXCEPT !.r = Image(rho, @), !.v = RenameValue(rho, @)]
      [] op.k = "Load" -> [op EXCEPT !.r = Image(rho, @), !.addr = RenameValue(rho, @)]
      [] op.k = "Store" -> [op EXCEPT !.v = RenameValue(rho, @),
                                      !.addr = RenameValue(rho, @)]
      [] op.k = "Branch2" -> [op EXCEPT !.cond = RenameValue(rho, @)]
      [] OTHER -> op

RenamePhi(rho, e) ==
    PhiEntry(Image(rho, e.r), e.t,
             [i \in DOMAIN e.inc |-> <<RenameValue(rho, e.inc[i][1]), e.inc[i][2]>>])

RenameBlock(rho, block) ==
    [label |-> block.label,
     phi_set |-> {RenamePhi(rho, e) : e \in block.phi_set},
     predecessors |-> block.predecessors,
     body |-> [j \in DOMAIN block.body |-> RenameOp(rho, block.body[j])]]

\* the Function with arguments A1 and blocks B1 becomes the one with A2 and
\* B2 when its SSA ids are renamed by the bijection rho
SameUpTo(rho, A1, B1, A2, B2) ==
    /\ IsBijection(rho)
    /\ [i \in DOMAIN A1 |-> <<Image(rho, A1[i][1]), A1[i][2]>>] = A2
    /\ [b \in DOMAIN B1 |-> RenameBlock(rho, B1[b])] = B2

\* C30: determinism up to the renaming of SSA ids.  For any two iteration
\* orders of the sets of names, the two Functions built from the same input
\* have the same blocks (labels, predecessor lists, terminators and
\* operation sequences) and the same phi-sets after a bijective renaming of
\* the SSA ids.
C30_Deterministic ==
    cg.prior # <<>> =>
        /\ Ok(cg)
        /\ Returned =>
              \E rho \in Matchings(PhisOf(cg.prior[1].blocks), PhisOf(cg.blocks),
                                   Placed(cg.prior[1].args, cg.prior[1].blocks,
                                          ir_args, cg.blocks)) :
                  SameUpTo(rho, cg.prior[1].args, cg.prior[1].blocks, ir_args, cg.blocks)

\* two builds of one function that differ in the ids they gave to the phis
C30_Witness ==
    /\ Returned /\ cg.prior # <<>>
    /\ cg.prior[1].blocks # cg.blocks
    /\ \E rho \in Matchings(PhisOf(cg.prior[1].blocks), PhisOf(cg.blocks),
                             Placed(cg.prior[1].args, cg.prior[1].blocks,
                                    ir_args, cg.blocks)) :
          /\ SameUpTo(rho, cg.prior[1].args, cg.prior[1].blocks, ir_args, cg.blocks)
          /\ \E p \in rho : p[1] # p[2]

====
